---- MODULE Spec2Model ----
(***************************************************************************)
(* A model of generpc: the JSON-RPC 2.0 HTTP handler (Server.ServeHTTP,    *)
(* Server.invokeRequest), the JSON coder (ReadRequests, jsonReadRequest,   *)
(* jsonReadBatch, jsonRequest.Request, jsonResponseFor, the writers) and   *)
(* the coder package's Error / Response values.                            *)
(*                                                                         *)
(* Byte strings (method names, raw ids, number literals) are sequences of  *)
(* one-character strings, so that prefixes, first bytes and re-encoding    *)
(* are computed and not assumed.  Go's nil pointer / nil interface /       *)
(* absent value is the empty sequence <<>>, a present value v is <<v>>.    *)
(***************************************************************************)
EXTENDS Integers, Sequences, FiniteSets, TLC

\* The longest batch (number of array elements) a request body carries.
MaxBatch == 3

\* The most requests a body of the second coder carries.
MaxCoded == 2

(***************************************************************************)
(* Byte strings                                                            *)
(***************************************************************************)
\* A prefix test that finds no prefix.
HasPrefix_Never(s, prefix) == FALSE

HasPrefix(s, prefix) ==
    /\ Len(s) >= Len(prefix)
    /\ SubSeq(s, 1, Len(prefix)) = prefix

RECURSIVE Concat(_)
Concat(ss) ==
    IF ss = <<>> THEN <<>> ELSE Head(ss) \o Concat(Tail(ss))

\* Method names of the requests.
NameEmpty == <<>>
NameSubtract == <<"s", "u", "b">>
NameError == <<"e", "r", "r">>
NameNil == <<"n", "i", "l">>
NameUnregistered == <<"u", "n", "r">>
NameRpcSubtract == <<"r", "p", "c", ".", "s", "u", "b">>
RpcPrefix == <<"r", "p", "c", ".">>

\* Raw id fragments as they stand on the wire.
IdInt == <<"1">>
IdInt2 == <<"2">>
IdFloat == <<"1", ".", "0">>
IdString == <<"\"", "i", "d", "\"">>
IdHTML == <<"\"", "<", "\"">>
IdNull == <<"n", "u", "l", "l">>
IdArray == <<"[", "]">>

(***************************************************************************)
(* coder.Error and the package-level error values                          *)
(***************************************************************************)
Error(code, message) == [Code |-> code, Message |-> message, Data |-> <<>>]

\* The package-level variables of type Error: they live as long as the
\* process and every exchange reads the same ones.
VARIABLE pkg

\* var ( ParseError = ...; InvalidRequest = ... ) of package coder
coderErrors ==
    [ParseError |-> Error(-32700, "Parse error"),
     InvalidRequest |-> Error(-32600, "Invalid Request")]

\* var methodNotFound, var invalidParams of package generpc
serverErrors ==
    [methodNotFound |-> Error(-32601, "Method not found"),
     invalidParams |-> Error(-32602, "Invalid params")]

\* The variables as their declarations initialise them.
PackageErrors ==
    [ParseError |-> coderErrors.ParseError,
     InvalidRequest |-> coderErrors.InvalidRequest,
     methodNotFound |-> serverErrors.methodNotFound,
     invalidParams |-> serverErrors.invalidParams]

\* A read of each variable: what it holds now.
ParseError == pkg.ParseError
InvalidRequest == pkg.InvalidRequest
methodNotFound == pkg.methodNotFound
\* The Error of another code in the place of invalidParams.
invalidParams_AsInternalError == Error(-32603, "Internal error")
invalidParams == pkg.invalidParams

\* func (e Error) WithString(str string) *Error
WithString(e, str) == [e EXCEPT !.Data = <<str>>]

\* One use of a package-level Error: a method called on it (WithError is
\* WithString of err.Error()), or its address taken ("&").
Use(name, op, str) == [v |-> name, op |-> op, str |-> str]

\* A method of Error writing through to the variable it is called on.
ReceiverAfter_InPlace(e, use) ==
    IF use.op = "WithString" THEN [e EXCEPT !.Data = <<use.str>>] ELSE e

\* The variable after one use.  WithString, WithError and Response have the
\* value receiver (e Error): they get a copy of the variable, also when
\* called through a *Error, and v := e, v.Data = str and &e are the
\* copy's.  Nothing in the packages assigns through &InvalidRequest.
ReceiverAfter(e, use) == e

\* The package-level variables after the uses, in order.
RECURSIVE After(_, _)
After(p, uses) ==
    IF uses = <<>> THEN p
    ELSE After([p EXCEPT ![Head(uses).v] = ReceiverAfter(@, Head(uses))], Tail(uses))

\* func (e Error) WithError(err error) *Error; err is its Error() text.
WithError(e, err) == WithString(e, err)

\* A nil *RequestID, and a *RequestID pointing at the bytes id.
NilID == <<>>
PtrID(id) == <<id>>

NoResult == <<>>
NoError == <<>>

\* func (e Error) Response(r *Request) *Response; r is <<>> for nil.
ErrResponse(e, r) ==
    [Result |-> NoResult, Error |-> <<e>>,
     ID |-> IF r # <<>> THEN r[1].ID ELSE NilID]

\* func NewResult(r *Request, v interface{}) *Response
NewResult(req, v) == [Result |-> <<v>>, Error |-> NoError, ID |-> req.ID]

serverError(code) == Error(code, "Server error")

serverErrorCodeBegin == -32000
serverErrorCodeBeginReserved == -32090
serverErrorCodeEnd == -32099

\* What a call hands back: panic is <<>> when it returns normally with ret,
\* and <<message>> when it panics.
Returns(ret) == [panic |-> <<>>, ret |-> ret]
Panics(message) == [panic |-> <<message>>, ret |-> <<>>]

\* func ServerError(code int) Error, with the comparisons as the code has
\* them: code < -32000 || code > -32099, then code >= -32090 && code <= -32099.
ServerError(code) ==
    IF code < serverErrorCodeBegin \/ code > serverErrorCodeEnd
    THEN Panics("coder: error code is not valid for use as server error")
    ELSE IF code >= serverErrorCodeBeginReserved /\ code <= serverErrorCodeEnd
    THEN Panics("coder: use of reserved server error code")
    ELSE Returns(serverError(code))
ExceptionErrorCode == -32090
ExceptionError(err) == WithError(serverError(ExceptionErrorCode), err)
MultipleResponsesCode == -32091

(***************************************************************************)
(* jsonNumber: number literals kept as their wire text                     *)
(***************************************************************************)
Digits == <<"0", "1", "2", "3", "4", "5", "6", "7", "8", "9">>

IsDigit(ch) == \E d \in 1..Len(Digits) : Digits[d] = ch

DigitVal(ch) == (CHOOSE d \in 1..Len(Digits) : Digits[d] = ch) - 1

RECURSIVE DigitsVal(_)
DigitsVal(s) ==
    IF s = <<>> THEN 0
    ELSE 10 * DigitsVal(SubSeq(s, 1, Len(s) - 1)) + DigitVal(s[Len(s)])

\* The width of int64 in this model, in bits.  The widths are scaled down so
\* that the values stay inside the model checker's integers: the host's int
\* is as wide as int64 (a 64-bit build) or half as wide (a 32-bit build).
Int64Size == 16

IntSizes == {Int64Size, Int64Size \div 2}

RECURSIVE Pow2(_)
Pow2(n) == IF n = 0 THEN 1 ELSE 2 * Pow2(n - 1)

MaxInt(size) == Pow2(size - 1) - 1
MinInt(size) == 0 - Pow2(size - 1)

\* strconv.ParseInt(s, 10, bitSize): [v, err]; err is <<>> for nil.  Text
\* that is not an optional sign and digits is a syntax error with value 0, a
\* value out of range is a range error with the nearest bound as value.
ParseInt(s, bitSize) ==
    LET neg == s # <<>> /\ s[1] = "-"
        ds == IF neg THEN Tail(s) ELSE s
        ok == ds # <<>> /\ \A k \in 1..Len(ds) : IsDigit(ds[k])
        val == IF neg THEN 0 - DigitsVal(ds) ELSE DigitsVal(ds)
    IN  IF ~ok THEN [v |-> 0, err |-> <<"invalid syntax">>]
        ELSE IF val > MaxInt(bitSize)
        THEN [v |-> MaxInt(bitSize), err |-> <<"value out of range">>]
        ELSE IF val < MinInt(bitSize)
        THEN [v |-> MinInt(bitSize), err |-> <<"value out of range">>]
        ELSE [v |-> val, err |-> <<>>]

\* func (n Number) Int64() (int64, error)
Int64(lit) == ParseInt(lit, Int64Size)

\* The conversion int(v) of an int64 on a host whose int has size bits: the
\* low bits of v, read as a signed number.
IntOf(v, size) == ((v + Pow2(size - 1)) % Pow2(size)) - Pow2(size - 1)

\* func (n jsonNumber) CastInt() (int, bool) on a host whose int has size
\* bits: v, err := n.Int64(); return int(v), err == nil
CastInt(lit, size) ==
    LET parsed == Int64(lit)
    IN  [v |-> IntOf(parsed.v, size), ok |-> parsed.err = <<>>]

\* func (n jsonNumber) CastUint() (uint, bool); uint(v) of a v that is not
\* negative is v.
CastUint(lit, size) ==
    LET cast == CastInt(lit, size)
    IN  IF cast.v < 0 THEN [v |-> 0, ok |-> FALSE]
        ELSE [v |-> cast.v, ok |-> cast.ok]

\* The host of the tests: its int holds 9223372036854775807.
TestIntSize == Int64Size

Lit42 == <<"4", "2">>
Lit23 == <<"2", "3">>

(***************************************************************************)
(* Params as decoded into interface{}                                      *)
(*   t = "absent" | "null" | "string" | "number" | "bool" : neither slice  *)
(*                                                          nor map        *)
(*   t = "array"  : []interface{}, pos the elements                        *)
(*   t = "object" : map[string]interface{}, named the <<key, value>> pairs *)
(***************************************************************************)
Params(t, pos, named) == [t |-> t, pos |-> pos, named |-> named]

ParamsAbsent == Params("absent", <<>>, {})
ParamsNull == Params("null", <<>>, {})
ParamsString == Params("string", <<>>, {})
ParamsNumber == Params("number", <<>>, {})
ParamsBool == Params("bool", <<>>, {})
ParamsByPos == Params("array", <<Lit42, Lit23>>, {})
ParamsByPosSwapped == Params("array", <<Lit23, Lit42>>, {})
ParamsByName ==
    Params("object", <<>>, {<<"minuend", Lit42>>, <<"subtrahend", Lit23>>})
ParamsByNameBad ==
    Params("object", <<>>, {<<"min", Lit42>>, <<"sub", Lit23>>})

HasKey(named, k) == \E kv \in named : kv[1] = k
Lookup(named, k) == (CHOOSE kv \in named : kv[1] = k)[2]

(***************************************************************************)
(* The methods the tests register: subtractMethod and errorMethod          *)
(***************************************************************************)
\* The conversion handing the subtrahend over first.
subtractParseNamedParams_Swapped(named) ==
    IF ~HasKey(named, "minuend")
    THEN [params |-> <<>>, err |-> <<"parameter minuend not provided">>]
    ELSE IF ~HasKey(named, "subtrahend")
    THEN [params |-> <<>>, err |-> <<"parameter minuend not provided">>]
    ELSE [params |-> <<Lookup(named, "subtrahend"), Lookup(named, "minuend")>>,
          err |-> <<>>]

\* ParseNamedParams: [params, err]; err is <<>> for nil.
subtractParseNamedParams(named) ==
    IF ~HasKey(named, "minuend")
    THEN [params |-> <<>>, err |-> <<"parameter minuend not provided">>]
    ELSE IF ~HasKey(named, "subtrahend")
    THEN [params |-> <<>>, err |-> <<"parameter minuend not provided">>]
    ELSE [params |-> <<Lookup(named, "minuend"), Lookup(named, "subtrahend")>>,
          err |-> <<>>]

errorParseNamedParams(named) == [params |-> <<>>, err |-> <<>>]

\* Invoke: [error, value]; error is <<e>> when the result is a coder.Error.
subtractInvoke(params) ==
    [error |-> <<>>,
     value |-> <<CastInt(params[1], TestIntSize).v - CastInt(params[2], TestIntSize).v>>]

TestError == Error(1, "Test error")

errorInvoke(params) == [error |-> <<TestError>>, value |-> <<>>]

ParseNamedParams(method, named) ==
    IF method = "subtractMethod" THEN subtractParseNamedParams(named)
    ELSE errorParseNamedParams(named)

Invoke(method, params) ==
    IF method = "subtractMethod" THEN subtractInvoke(params)
    ELSE errorInvoke(params)

\* The registry the tests build with Server.Register: s.m[name] = m, a nil
\* Method included.
Registry ==
    (NameSubtract :> "subtractMethod") @@ (NameError :> "errorMethod")
    @@ (NameNil :> "nil") @@ (NameRpcSubtract :> "subtractMethod")

(***************************************************************************)
(* Server.invokeRequest                                                    *)
(***************************************************************************)
Call(op, method) == [op |-> op, method |-> method]

Outcome(resp, calls) == [resp |-> resp, calls |-> calls]

\* The tail of invokeRequest returning for a notification before m.Invoke.
invokeBound_SkipsNotifications(reg, req, params, calls) ==
    LET result == Invoke(reg[req.Method], params)
        done == Append(calls, Call("Invoke", req.Method))
    IN  IF req.ID[1] = <<>>
        THEN Outcome(<<>>, calls)
        ELSE IF result.error # <<>>
        THEN Outcome(<<ErrResponse(result.error[1], <<req>>)>>, done)
        ELSE Outcome(<<NewResult(req, result.value[1])>>, done)

\* The tail of invokeRequest, from the call of m.Invoke on.
invokeBound(reg, req, params, calls) ==
    LET result == Invoke(reg[req.Method], params)
        done == Append(calls, Call("Invoke", req.Method))
    IN  IF req.ID[1] = <<>>
        THEN Outcome(<<>>, done)
        ELSE IF result.error # <<>>
        THEN Outcome(<<ErrResponse(result.error[1], <<req>>)>>, done)
        ELSE Outcome(<<NewResult(req, result.value[1])>>, done)

ParamsShapeInfo == "params should be by-position (array) or by-name (object)"

\* func (s *Server) invokeRequest(req *coder.Request) *coder.Response, with
\* the calls it makes on the method.  reg is s.m.
invokeRequest(reg, req) ==
    IF req.Method = <<>> \/ HasPrefix(req.Method, RpcPrefix)
    THEN Outcome(<<ErrResponse(methodNotFound, <<req>>)>>, <<>>)
    ELSE IF req.Method \notin DOMAIN reg \/ reg[req.Method] = "nil"
    THEN Outcome(<<ErrResponse(methodNotFound, <<req>>)>>, <<>>)
    ELSE IF req.Params.t = "array"
    THEN invokeBound(reg, req, req.Params.pos, <<>>)
    ELSE IF req.Params.t = "object"
    THEN LET parsed == ParseNamedParams(reg[req.Method], req.Params.named)
             calls == <<Call("ParseNamedParams", req.Method)>>
         IN  IF parsed.err # <<>>
             THEN Outcome(<<ErrResponse(WithError(invalidParams, parsed.err[1]),
                                        <<req>>)>>, calls)
             ELSE invokeBound(reg, req, parsed.params, calls)
    ELSE Outcome(<<ErrResponse(WithString(invalidParams, ParamsShapeInfo),
                               <<req>>)>>, <<>>)

\* The uses invokeRequest makes of methodNotFound and invalidParams.
invokeRequestUses(reg, req) ==
    IF req.Method = <<>> \/ HasPrefix(req.Method, RpcPrefix)
    THEN <<Use("methodNotFound", "Response", "")>>
    ELSE IF req.Method \notin DOMAIN reg \/ reg[req.Method] = "nil"
    THEN <<Use("methodNotFound", "Response", "")>>
    ELSE IF req.Params.t = "array"
    THEN <<>>
    ELSE IF req.Params.t = "object"
    THEN LET parsed == ParseNamedParams(reg[req.Method], req.Params.named)
         IN  IF parsed.err # <<>>
             THEN <<Use("invalidParams", "WithString", parsed.err[1])>>
             ELSE <<>>
    ELSE <<Use("invalidParams", "WithString", ParamsShapeInfo)>>

(***************************************************************************)
(* The request body.  A body is a run of leading whitespace and one of     *)
(*   form = "none"        zero bytes                                       *)
(*   form = "invalid"     text that is no JSON value (invalid)             *)
(*   form = "value"       one JSON value, elems[1]                         *)
(*   form = "array"       a JSON array of the values elems                 *)
(*   form = "brokenarray" '[' followed by text that is no JSON array       *)
(*   form = "coded"       the requests elems in the second coder's format, *)
(*                        not framed as a batch                            *)
(*   form = "codedbatch"  the same, framed as a batch                      *)
(* and a JSON value is                                                     *)
(*   kind = "scalar"      a number such as 1                               *)
(*   kind = "mistyped"    an object whose "method" is a number             *)
(*   kind = "object"      an object with "jsonrpc" V, "method" M,          *)
(*                        "params" P and "id" I (<<>> when there is none)  *)
(***************************************************************************)
Element(kind, v, meth, p, i) == [kind |-> kind, V |-> v, M |-> meth, P |-> p, I |-> i]

ScalarElement == Element("scalar", "", <<>>, ParamsAbsent, <<>>)
MistypedElement == Element("mistyped", "2.0", <<>>, ParamsAbsent, <<>>)

Body(lead, form, elems) == [lead |-> lead, form |-> form, elems |-> elems]

\* The first byte of a body that has one.
FirstByte(body) ==
    IF body.lead THEN " "
    ELSE IF body.form \in {"array", "brokenarray"} THEN "["
    ELSE IF body.form = "invalid" THEN "i"
    ELSE IF body.elems[1].kind = "scalar" THEN "1"
    ELSE "{"

\* The number of bytes of a body, counted in tokens: zero for no byte at all.
BodyLen(body) ==
    IF body.form = "none" THEN 0
    ELSE (IF body.lead THEN 1 ELSE 0) + 1 + Len(body.elems)

(***************************************************************************)
(* jsonCoder: decoding                                                     *)
(***************************************************************************)
jsonrpcVersion == "2.0"

ErrEOF == "EOF"
ErrSyntax == "invalid character 'i' looking for beginning of value"
ErrSyntaxArray == "invalid character ']' after object key"
ErrArrayIntoStruct == "json: cannot unmarshal array into Go value of type generpc.jsonRequest"
ErrNumberIntoStruct == "json: cannot unmarshal number into Go value of type generpc.jsonRequest"
ErrNumberIntoString == "json: cannot unmarshal number into Go value of type string"

\* d.Decode(&jr) of one JSON value: [err, jr]; err is <<>> for nil.
DecodeJSONRequest(el) ==
    IF el.kind = "scalar" THEN [err |-> <<ErrNumberIntoStruct>>, jr |-> el]
    ELSE IF el.kind = "mistyped" THEN [err |-> <<ErrNumberIntoString>>, jr |-> el]
    ELSE [err |-> <<>>, jr |-> el]

\* What json.Unmarshal(raw, &v) with v interface{} makes of a raw value,
\* by its first byte.
JSONType(raw) ==
    IF raw[1] = "\"" THEN "string"
    ELSE IF raw[1] = "-" \/ IsDigit(raw[1]) THEN "float64"
    ELSE IF raw[1] = "n" THEN "nil"
    ELSE IF raw[1] \in {"t", "f"} THEN "bool"
    ELSE IF raw[1] = "[" THEN "slice"
    ELSE "map"

Request(method, params, id) == [Method |-> method, Params |-> params, ID |-> PtrID(id)]

\* Request() without the check of the version.
jsonRequestRequest_NoVersionCheck(jr) ==
    IF jr.I # <<>> /\ JSONType(jr.I) \notin {"string", "float64", "nil"}
    THEN [req |-> <<>>, e |-> <<WithString(InvalidRequest, "invalid id type")>>]
    ELSE [req |-> <<Request(jr.M, jr.P, jr.I)>>, e |-> <<>>]

\* Request() without the check of the id's type.
jsonRequestRequest_NoIDCheck(jr) ==
    IF jr.V # jsonrpcVersion
    THEN [req |-> <<>>, e |-> <<WithString(InvalidRequest, "invalid version")>>]
    ELSE [req |-> <<Request(jr.M, jr.P, jr.I)>>, e |-> <<>>]

\* func (jr jsonRequest) Request() (*coder.Request, *coder.Error):
\* [req, e], each <<>> for nil.  The id is the raw fragment jr.I itself; the
\* json.Number params are wrapped as jsonNumber, which keeps the literal.
jsonRequestRequest(jr) ==
    IF jr.V # jsonrpcVersion
    THEN [req |-> <<>>, e |-> <<WithString(InvalidRequest, "invalid version")>>]
    ELSE IF jr.I # <<>> /\ JSONType(jr.I) \notin {"string", "float64", "nil"}
    THEN [req |-> <<>>, e |-> <<WithString(InvalidRequest, "invalid id type")>>]
    ELSE [req |-> <<Request(jr.M, jr.P, jr.I)>>, e |-> <<>>]

Read(reqs, batch, e) == [reqs |-> reqs, batch |-> batch, e |-> e]

\* func (c *jsonCoder) jsonReadRequest() ([]*coder.Request, *coder.Error):
\* the decoder skips the leading whitespace and decodes the next value into
\* a jsonRequest.
jsonReadRequest(body) ==
    IF body.form = "invalid"
    THEN [reqs |-> <<>>, e |-> <<WithError(InvalidRequest, ErrSyntax)>>]
    ELSE IF body.form = "brokenarray"
    THEN [reqs |-> <<>>, e |-> <<WithError(InvalidRequest, ErrSyntaxArray)>>]
    ELSE IF body.form = "array"
    THEN [reqs |-> <<>>, e |-> <<WithError(InvalidRequest, ErrArrayIntoStruct)>>]
    ELSE LET d == DecodeJSONRequest(body.elems[1])
             got == jsonRequestRequest(d.jr)
         IN  IF d.err # <<>>
             THEN [reqs |-> <<>>, e |-> <<WithError(InvalidRequest, d.err[1])>>]
             ELSE IF got.e # <<>>
             THEN [reqs |-> <<>>, e |-> got.e]
             ELSE [reqs |-> <<got.req>>, e |-> <<>>]

\* The loop of jsonReadBatch collecting the requests last to first.
RECURSIVE jsonReadBatchLoop_Reversed(_)
jsonReadBatchLoop_Reversed(elems) ==
    IF elems = <<>> THEN <<>>
    ELSE LET d == DecodeJSONRequest(Head(elems))
             got == jsonRequestRequest(d.jr)
             rest == jsonReadBatchLoop_Reversed(Tail(elems))
         IN  IF d.err # <<>> THEN rest \o <<<<>>>>
             ELSE IF got.e # <<>> THEN rest
             ELSE rest \o <<got.req>>

\* The loop of jsonReadBatch over the raw elements: a nil request (<<>>) for
\* an element that does not decode, nothing for one Request() rejects.
RECURSIVE jsonReadBatchLoop(_)
jsonReadBatchLoop(elems) ==
    IF elems = <<>> THEN <<>>
    ELSE LET d == DecodeJSONRequest(Head(elems))
             got == jsonRequestRequest(d.jr)
             rest == jsonReadBatchLoop(Tail(elems))
         IN  IF d.err # <<>> THEN <<<<>>>> \o rest
             ELSE IF got.e # <<>> THEN rest
             ELSE <<got.req>> \o rest

\* jsonReadBatch taking an empty array for a batch of no request.
jsonReadBatch_NoEmptyCheck(body) ==
    IF body.form = "brokenarray"
    THEN [reqs |-> <<>>, e |-> <<WithError(ParseError, ErrSyntaxArray)>>]
    ELSE [reqs |-> jsonReadBatchLoop(body.elems), e |-> <<>>]

\* func (c *jsonCoder) jsonReadBatch() (reqs []*coder.Request, e *coder.Error)
jsonReadBatch(body) ==
    IF body.form = "brokenarray"
    THEN [reqs |-> <<>>, e |-> <<WithError(ParseError, ErrSyntaxArray)>>]
    ELSE IF Len(body.elems) = 0
    THEN [reqs |-> <<>>, e |-> <<InvalidRequest>>]
    ELSE [reqs |-> jsonReadBatchLoop(body.elems), e |-> <<>>]

\* func (c *jsonCoder) ReadRequests() (reqs, batch, e)
ReadRequests(body) ==
    IF body.form = "none"
    THEN Read(<<>>, FALSE, <<WithError(ParseError, ErrEOF)>>)
    ELSE IF FirstByte(body) = "["
    THEN LET got == jsonReadBatch(body) IN Read(got.reqs, TRUE, got.e)
    ELSE LET got == jsonReadRequest(body) IN Read(got.reqs, FALSE, got.e)

\* The uses Request() makes of InvalidRequest.
jsonRequestUses(jr) ==
    IF jr.V # jsonrpcVersion
    THEN <<Use("InvalidRequest", "WithString", "invalid version")>>
    ELSE IF jr.I # <<>> /\ JSONType(jr.I) \notin {"string", "float64", "nil"}
    THEN <<Use("InvalidRequest", "WithString", "invalid id type")>>
    ELSE <<>>

\* The uses jsonReadRequest makes of InvalidRequest.
jsonReadRequestUses(body) ==
    IF body.form = "invalid"
    THEN <<Use("InvalidRequest", "WithString", ErrSyntax)>>
    ELSE IF body.form = "brokenarray"
    THEN <<Use("InvalidRequest", "WithString", ErrSyntaxArray)>>
    ELSE IF body.form = "array"
    THEN <<Use("InvalidRequest", "WithString", ErrArrayIntoStruct)>>
    ELSE LET d == DecodeJSONRequest(body.elems[1])
         IN  IF d.err # <<>>
             THEN <<Use("InvalidRequest", "WithString", d.err[1])>>
             ELSE jsonRequestUses(d.jr)

\* The uses the loop of jsonReadBatch makes: Request() runs on every element
\* that decodes, and the Error it returns is dropped.
RECURSIVE jsonReadBatchLoopUses(_)
jsonReadBatchLoopUses(elems) ==
    IF elems = <<>> THEN <<>>
    ELSE LET d == DecodeJSONRequest(Head(elems))
         IN  (IF d.err # <<>> THEN <<>> ELSE jsonRequestUses(d.jr))
             \o jsonReadBatchLoopUses(Tail(elems))

\* The uses jsonReadBatch makes; for an empty array it returns
\* &coder.InvalidRequest, the address of the variable itself.
jsonReadBatchUses(body) ==
    IF body.form = "brokenarray"
    THEN <<Use("ParseError", "WithString", ErrSyntaxArray)>>
    ELSE IF Len(body.elems) = 0
    THEN <<Use("InvalidRequest", "&", "")>>
    ELSE jsonReadBatchLoopUses(body.elems)

\* The uses ReadRequests makes.
ReadRequestsUses(body) ==
    IF body.form = "none"
    THEN <<Use("ParseError", "WithString", ErrEOF)>>
    ELSE IF FirstByte(body) = "["
    THEN jsonReadBatchUses(body)
    ELSE jsonReadRequestUses(body)

\* The uses c.ReadRequests() of the coder the factory built makes, and, when
\* the *Error it returns is the address of a variable, the e.Response(nil)
\* ServeHTTP then calls through it.
CoderReadRequestsUses(factory, body) ==
    LET uses == IF factory = "jsonCoderFor" THEN ReadRequestsUses(body) ELSE <<>>
    IN  IF uses # <<>> /\ uses[Len(uses)].op = "&"
        THEN Append(uses, Use(uses[Len(uses)].v, "Response", ""))
        ELSE uses

\* A second implementation of coder.Coder, registered with coder.Register
\* under its own content type.  Its ReadRequests hands over every request of
\* the body and reports a batch only for a body framed as one: the interface
\* lets a coder return any number of requests with batch false.
otherReadRequests(body) ==
    Read([k \in 1..Len(body.elems) |->
             <<Request(body.elems[k].M, body.elems[k].P, body.elems[k].I)>>],
         body.form = "codedbatch", <<>>)

\* c.ReadRequests() of the coder the factory built.
CoderReadRequests(factory, body) ==
    IF factory = "jsonCoderFor" THEN ReadRequests(body) ELSE otherReadRequests(body)

(***************************************************************************)
(* jsonCoder: encoding                                                     *)
(***************************************************************************)
jsonNull == <<"n", "u", "l", "l">>

\* encoding/json writes a Marshaler's bytes (json.RawMessage is one) through
\* compact with the encoder's escapeHTML, which json.NewEncoder leaves on:
\* the bytes '<', '>' and '&' leave as the six bytes of their \u00XX escape.
\* A scalar holds no whitespace outside a string, so nothing else changes.
CompactByte(ch) ==
    IF ch = "<" THEN <<"\\", "u", "0", "0", "3", "c">>
    ELSE IF ch = ">" THEN <<"\\", "u", "0", "0", "3", "e">>
    ELSE IF ch = "&" THEN <<"\\", "u", "0", "0", "2", "6">>
    ELSE <<ch>>

Compact(raw) == Concat([k \in 1..Len(raw) |-> CompactByte(raw[k])])

\* json.RawMessage.MarshalJSON: a nil message is null.
MarshalRawMessage(raw) == IF raw = <<>> THEN jsonNull ELSE raw

\* func jsonErrorFor(e *coder.Error) *jsonError
jsonErrorFor(e) == [C |-> e.Code, M |-> e.Message, D |-> e.Data]

\* jsonResponseFor setting the result next to the error.
jsonResponseFor_Both(resp) ==
    [V |-> jsonrpcVersion,
     R |-> <<resp.Result>>,
     E |-> IF resp.Error # <<>> THEN <<jsonErrorFor(resp.Error[1])>> ELSE <<>>,
     I |-> IF resp.ID # NilID THEN resp.ID[1] ELSE jsonNull]

\* func jsonResponseFor(r coder.Response) jsonResponse: I is the message
\* jr.I points at, R and E are <<>> for nil.
jsonResponseFor(resp) ==
    [V |-> jsonrpcVersion,
     R |-> IF resp.Error # <<>> THEN <<>> ELSE <<resp.Result>>,
     E |-> IF resp.Error # <<>> THEN <<jsonErrorFor(resp.Error[1])>> ELSE <<>>,
     I |-> IF resp.ID # NilID THEN resp.ID[1] ELSE jsonNull]

\* The members of the JSON object Encode writes for a jsonResponse:
\* omitempty drops a nil R and a nil E, the id is always there.
Marshal(jr) ==
    [jsonrpc |-> jr.V, result |-> jr.R, error |-> jr.E,
     id |-> Compact(MarshalRawMessage(jr.I))]

\* What one Write puts on the wire: a JSON object, a JSON array or text.
Doc(form, items, text) == [form |-> form, items |-> items, text |-> text]

EncodeResponse(resp) == Doc("object", <<Marshal(jsonResponseFor(resp))>>, "")

\* WriteResponses writing a lone response as a bare object.
EncodeResponses_Unwrapped(s) ==
    IF Len(s) = 1 THEN EncodeResponse(s[1])
    ELSE Doc("array", [k \in 1..Len(s) |-> Marshal(jsonResponseFor(s[k]))], "")

EncodeResponses(s) ==
    Doc("array", [k \in 1..Len(s) |-> Marshal(jsonResponseFor(s[k]))], "")

\* The Response WriteException builds: coder.Response{Error: ExceptionError(err), ID: id}
ExceptionResponse(id, err) ==
    [Result |-> NoResult, Error |-> <<ExceptionError(err)>>, ID |-> id]

(***************************************************************************)
(* http.ResponseWriter                                                     *)
(***************************************************************************)
JSONCharsetType == "application/json; charset=utf-8"

\* func (c *jsonCoder) WriteContentType(): no line of ServeHTTP calls it.
WriteContentType(rw) == [rw EXCEPT !.header.ContentType = JSONCharsetType]

NewResponseWriter ==
    [header |-> [ContentType |-> "", Allow |-> ""], status |-> 0, body |-> <<>>]

WriteHeader(rw, code) == IF rw.status = 0 THEN [rw EXCEPT !.status = code] ELSE rw

Write(rw, doc) ==
    [WriteHeader(rw, 200) EXCEPT !.body = Append(@, doc)]

\* http.Error(w, msg, code)
HTTPError(rw, msg, code) ==
    Write(WriteHeader([rw EXCEPT !.header.ContentType = "text/plain; charset=utf-8"],
                      code),
          Doc("text", <<>>, msg \o "\n"))

(***************************************************************************)
(* The exchanges: one call of Server.ServeHTTP                             *)
(***************************************************************************)
VARIABLES
    fnMap,    \* coder.fnMap.m: content type -> factory
    m,        \* Server.m: method name -> Method
    r,        \* the *http.Request: Method, ContentType, ContentLength, Body
    w,        \* the http.ResponseWriter: header, status, body written
    pc,       \* where ServeHTTP stands: "return" after an early return,
              \* "done" at the end of the function
    c,        \* the coder coder.New returned ("" for nil)
    reqs,     \* what ReadRequests returned
    batch,
    resps,    \* the responses collected by the loop
    idx,      \* the loop's position in reqs
    calls,    \* the calls made on methods, in order
    writes,   \* the calls made on the coder's writers and http.Error, in order
    err,      \* the err of the final write (<<>> for nil)
    last,     \* the last call of an exported function outside an exchange:
              \* its arguments, the registries before it and how it ended
    stored,   \* content type -> the factory the last call that returned
              \* normally stored for it
    mutex,    \* the holder of fnMap's sync.Mutex ("" when it is free)
    workers,  \* worker -> the call of New, Register or ReplaceWith it is
              \* in, and the line it stands at
    served    \* the exchanges the server has finished, in order: the
              \* request of each and the body written for it

vars == <<fnMap, m, r, w, pc, c, reqs, batch, resps, idx, calls, writes, err,
          last, stored, mutex, workers, pkg, served>>

JSONContentType == "application/json"
OtherContentType == "application/x-other"

\* What init() of the packages leaves in coder.fnMap.m, with the second
\* coder registered next to the JSON one.
RegisteredCoders ==
    (JSONContentType :> "jsonCoderFor") @@ (OtherContentType :> "otherCoderFor")

NoCall == [op |-> "none"]

\* The goroutines calling into package coder at the same time.
Workers == {"w1", "w2"}

\* A worker outside any call.
Idle == [op |-> "", typ |-> "", fn |-> "", pc |-> "idle", ret |-> "", panic |-> <<>>]

NoWorkers == [wk \in Workers |-> Idle]

Versions == {jsonrpcVersion, ""}

\* The objects a single message is drawn from.
SingleElements ==
    {Element("object", v, meth, p, i) :
        v \in Versions,
        meth \in {NameEmpty, NameSubtract, NameError, NameNil, NameUnregistered,
                  NameRpcSubtract},
        p \in {ParamsAbsent, ParamsNull, ParamsString, ParamsNumber, ParamsBool,
               ParamsByPos, ParamsByPosSwapped, ParamsByName, ParamsByNameBad},
        i \in {<<>>, IdInt, IdFloat, IdString, IdHTML, IdNull, IdArray}}
    \cup {ScalarElement, MistypedElement}

\* A request whose id is an array: Request() rejects it.
InvalidIDElement == Element("object", jsonrpcVersion, NameSubtract, ParamsByPos, IdArray)

\* A request of another version: Request() rejects it before it looks at
\* anything else.
InvalidVersionElement == Element("object", "", NameSubtract, ParamsByPos, IdInt)

\* The values the elements of a batch are drawn from.
BatchElements ==
    {Element("object", jsonrpcVersion, meth, ParamsByPos, i) :
        meth \in {NameEmpty, NameSubtract},
        i \in {<<>>, IdInt, IdInt2}}
    \cup {ScalarElement, InvalidIDElement, InvalidVersionElement}

RECURSIVE SeqsUpTo(_, _)
SeqsUpTo(S, n) ==
    IF n = 0 THEN {<<>>}
    ELSE LET shorter == SeqsUpTo(S, n - 1)
         IN  shorter \cup {Append(q, x) : q \in {t \in shorter : Len(t) = n - 1}, x \in S}

\* The requests a body of the second coder is drawn from.
CodedElements ==
    {Element("object", jsonrpcVersion, meth, ParamsByPos, i) :
        meth \in {NameEmpty, NameSubtract, NameError}, i \in {<<>>, IdInt}}

CodedBodies ==
    {Body(FALSE, form, elems) :
        form \in {"coded", "codedbatch"}, elems \in SeqsUpTo(CodedElements, MaxCoded)}

Bodies ==
    {Body(FALSE, "none", <<>>)}
    \cup {Body(lead, "invalid", <<>>) : lead \in BOOLEAN}
    \cup {Body(lead, "brokenarray", <<>>) : lead \in BOOLEAN}
    \cup {Body(lead, "value", <<el>>) : lead \in BOOLEAN, el \in SingleElements}
    \cup {Body(lead, "array", elems) :
            lead \in BOOLEAN, elems \in SeqsUpTo(BatchElements, MaxBatch)}

\* A request as the transport hands it over: the declared length is that of
\* the body, or -1 when the transport does not know it.
HTTPRequests ==
    {[Method |-> verb, ContentType |-> ct,
      ContentLength |-> IF known THEN BodyLen(body) ELSE -1, Body |-> body] :
        verb \in {"POST", "GET"}, ct \in {JSONContentType, "invalid/type"},
        known \in BOOLEAN, body \in Bodies}
    \cup {[Method |-> verb, ContentType |-> OtherContentType,
            ContentLength |-> IF known THEN BodyLen(body) ELSE -1, Body |-> body] :
              verb \in {"POST", "GET"}, known \in BOOLEAN, body \in CodedBodies}

Init ==
    /\ fnMap = RegisteredCoders
    /\ m = Registry
    /\ r \in HTTPRequests
    /\ w = NewResponseWriter
    /\ pc = "New"
    /\ c = ""
    /\ reqs = <<>>
    /\ batch = FALSE
    /\ resps = <<>>
    /\ idx = 1
    /\ calls = <<>>
    /\ writes = <<>>
    /\ err = <<>>
    /\ last = NoCall
    /\ stored = RegisteredCoders
    /\ mutex = ""
    /\ workers = NoWorkers
    /\ pkg = PackageErrors
    /\ served = <<>>

WriteCall(op, n, ok) == [op |-> op, n |-> n, ok |-> ok]

ErrWrite == "write failed"

\* c.WriteResponse(resp) on the writer rw; ok is whether Encode succeeds.
WriteResponse(rw, resp, ok) == IF ok THEN Write(rw, EncodeResponse(resp)) ELSE rw

\* c.WriteResponses(s)
WriteResponses(rw, s, ok) == IF ok THEN Write(rw, EncodeResponses(s)) ELSE rw

\* c.WriteException(id, err)
WriteException(rw, id, e, ok) ==
    IF ok THEN Write(rw, EncodeResponse(ExceptionResponse(id, e))) ELSE rw

\* coder.New falling back to the JSON coder for an unknown content type.
CoderNew_Default(reg, req) ==
    IF req.ContentType \notin DOMAIN reg THEN "jsonCoderFor" ELSE reg[req.ContentType]

\* func New(w, r) Coder: the factory registered for the content type, or nil.
CoderNew(reg, req) ==
    IF req.ContentType \notin DOMAIN reg THEN "" ELSE reg[req.ContentType]

UnsupportedMessage(ct) == "media type \"" \o ct \o "\" is not supported"

\* ServeHTTP, lines 37-43: resolve the coder, or report 415 and return.
New ==
    /\ pc = "New"
    /\ c' = CoderNew(fnMap, r)
    /\ IF c' = ""
       THEN /\ w' = HTTPError(w, UnsupportedMessage(r.ContentType), 415)
            /\ writes' = Append(writes, WriteCall("http.Error", 0, TRUE))
            /\ pc' = "return"
       ELSE /\ pc' = "CheckMethod"
            /\ UNCHANGED <<w, writes>>
    /\ UNCHANGED <<pkg, served, mutex, workers, last, stored, fnMap, m, r, reqs, batch, resps, idx, calls, err>>

\* ServeHTTP, lines 45-50: any verb but POST is answered 405 and a
\* ParseError; what WriteResponse returns is dropped.
CheckMethod ==
    /\ pc = "CheckMethod"
    /\ IF r.Method # "POST"
       THEN \E ok \in BOOLEAN :
            /\ w' = WriteResponse(WriteHeader(w, 405),
                        ErrResponse(WithString(ParseError, "invalid HTTP method"), <<>>),
                        ok)
            /\ writes' = Append(writes, WriteCall("WriteResponse", 1, ok))
            /\ pc' = "return"
       ELSE /\ pc' = "CheckContentLength"
            /\ UNCHANGED <<w, writes>>
    /\ pkg' = IF r.Method # "POST"
              THEN After(pkg, <<Use("ParseError", "WithString", "invalid HTTP method")>>)
              ELSE pkg
    /\ UNCHANGED <<served, mutex, workers, last, stored, fnMap, m, r, c, reqs, batch, resps, idx, calls, err>>

\* ServeHTTP, lines 52-56: a declared length of zero is answered a ParseError.
CheckContentLength ==
    /\ pc = "CheckContentLength"
    /\ IF r.ContentLength = 0
       THEN \E ok \in BOOLEAN :
            /\ w' = WriteResponse(w,
                        ErrResponse(WithString(ParseError, "empty POST body"), <<>>),
                        ok)
            /\ writes' = Append(writes, WriteCall("WriteResponse", 1, ok))
            /\ pc' = "return"
       ELSE /\ pc' = "ReadRequests"
            /\ UNCHANGED <<w, writes>>
    /\ pkg' = IF r.ContentLength = 0
              THEN After(pkg, <<Use("ParseError", "WithString", "empty POST body")>>)
              ELSE pkg
    /\ UNCHANGED <<served, mutex, workers, last, stored, fnMap, m, r, c, reqs, batch, resps, idx, calls, err>>

\* ServeHTTP, lines 58-62: decode; a top-level Error is answered at once.
Decode ==
    /\ pc = "ReadRequests"
    /\ LET got == CoderReadRequests(c, r.Body)
       IN  /\ reqs' = got.reqs
           /\ batch' = got.batch
           /\ IF got.e # <<>>
              THEN \E ok \in BOOLEAN :
                   /\ w' = WriteResponse(w, ErrResponse(got.e[1], <<>>), ok)
                   /\ writes' = Append(writes, WriteCall("WriteResponse", 1, ok))
                   /\ pc' = "return"
              ELSE /\ pc' = IF got.reqs = <<>> THEN "Write" ELSE "Dispatch"
                   /\ UNCHANGED <<w, writes>>
    /\ pkg' = After(pkg, CoderReadRequestsUses(c, r.Body))
    /\ UNCHANGED <<served, mutex, workers, last, stored, fnMap, m, r, c, resps, idx, calls, err>>

\* ServeHTTP, lines 65-78: one turn of the loop over reqs.
Dispatch ==
    /\ pc = "Dispatch"
    /\ idx <= Len(reqs)
    /\ IF reqs[idx] = <<>>
       THEN /\ resps' = Append(resps, ErrResponse(InvalidRequest, <<>>))
            /\ UNCHANGED calls
       ELSE LET out == invokeRequest(m, reqs[idx][1])
            IN  /\ resps' = resps \o out.resp
                /\ calls' = calls \o out.calls
    /\ idx' = idx + 1
    /\ pc' = IF idx' > Len(reqs) THEN "Write" ELSE "Dispatch"
    /\ pkg' = After(pkg, IF reqs[idx] = <<>>
                         THEN <<Use("InvalidRequest", "Response", "")>>
                         ELSE invokeRequestUses(m, reqs[idx][1]))
    /\ UNCHANGED <<served, mutex, workers, last, stored, fnMap, m, r, w, c, reqs, batch, writes, err>>

\* ServeHTTP, lines 80-94: write what the loop collected.  With several
\* responses outside a batch the error to write comes from
\* coder.ServerError(-32091); when that call panics ServeHTTP unwinds at
\* line 91 with nothing written (pc = "panic").
WriteOut ==
    /\ pc = "Write"
    /\ IF batch
       THEN \E ok \in BOOLEAN :
            /\ w' = WriteResponses(w, resps, ok)
            /\ writes' = Append(writes, WriteCall("WriteResponses", Len(resps), ok))
            /\ err' = IF ok THEN <<>> ELSE <<ErrWrite>>
            /\ pc' = IF ok THEN "done" ELSE "Exception"
       ELSE IF Len(resps) = 0
       THEN /\ pc' = "done"
            /\ UNCHANGED <<w, writes, err>>
       ELSE IF Len(resps) = 1
       THEN \E ok \in BOOLEAN :
            /\ w' = WriteResponse(w, resps[1], ok)
            /\ writes' = Append(writes, WriteCall("WriteResponse", 1, ok))
            /\ err' = IF ok THEN <<>> ELSE <<ErrWrite>>
            /\ pc' = IF ok THEN "done" ELSE "Exception"
       ELSE LET e == ServerError(MultipleResponsesCode)
            IN  IF e.panic # <<>>
                THEN /\ pc' = "panic"
                     /\ UNCHANGED <<w, writes, err>>
                ELSE \E ok \in BOOLEAN :
                     /\ w' = WriteResponse(w,
                                 ErrResponse(WithString(e.ret, "multiple responses"),
                                             <<>>),
                                 ok)
                     /\ writes' = Append(writes, WriteCall("WriteResponse", 1, ok))
                     /\ err' = IF ok THEN <<>> ELSE <<ErrWrite>>
                     /\ pc' = IF ok THEN "done" ELSE "Exception"
    /\ UNCHANGED <<pkg, served, mutex, workers, last, stored, fnMap, m, r, c, reqs, batch, resps, idx, calls>>

\* ServeHTTP, lines 96-101: a failed write is reported with WriteException,
\* and with http.Error when that fails too.
Exception ==
    /\ pc = "Exception"
    /\ \E ok \in BOOLEAN :
       /\ w' = IF ok THEN WriteException(w, NilID, err[1], TRUE)
               ELSE HTTPError(w, "error: " \o ErrWrite, 500)
       /\ writes' = Append(writes, WriteCall("WriteException", 1, ok))
                    \o (IF ok THEN <<>> ELSE <<WriteCall("http.Error", 0, TRUE)>>)
    /\ pc' = "done"
    /\ UNCHANGED <<pkg, served, mutex, workers, last, stored, fnMap, m, r, c, reqs, batch, resps, idx, calls, err>>

Next ==
    \/ New
    \/ CheckMethod
    \/ CheckContentLength
    \/ Decode
    \/ Dispatch
    \/ WriteOut
    \/ Exception

Spec == Init /\ [][Next]_vars

(***************************************************************************)
(* The exported functions called outside an exchange: coder.Register,      *)
(* coder.ReplaceWith, coder.New, Server.Register and coder.ServerError,    *)
(* one call after the other.                                               *)
(***************************************************************************)
\* func register(typ string, fn NewFn): fnMap.m[typ] = fn
register(reg, typ, fn) ==
    [t \in DOMAIN reg \cup {typ} |-> IF t = typ THEN fn ELSE reg[t]]

\* Register storing the factory whatever the map holds for the type.
Register_NoDupCheck(reg, typ, fn) ==
    IF fn = ""
    THEN Panics("coder: function is nil")
    ELSE Returns(register(reg, typ, fn))

\* func Register(typ string, fn NewFn); a nil fn is "".
Register(reg, typ, fn) ==
    IF fn = ""
    THEN Panics("coder: function is nil")
    ELSE IF typ \in DOMAIN reg
    THEN Panics("coder: Register called twice for type " \o typ)
    ELSE Returns(register(reg, typ, fn))

\* func ReplaceWith(typ string, fn NewFn)
ReplaceWith(reg, typ, fn) ==
    IF fn = ""
    THEN Panics("coder: function is nil")
    ELSE Returns(register(reg, typ, fn))

\* func (s *Server) Register(name string, m Method) { s.m[name] = m }
\* A nil Method is "nil".
ServerRegister(reg, name, meth) ==
    Returns([n \in DOMAIN reg \cup {name} |-> IF n = name THEN meth ELSE reg[n]])

\* func NewServer() *Server: an empty method map.
NewServer == <<>>

\* What init() of package generpc leaves in coder.fnMap.m.
InitialCoders == (JSONContentType :> "jsonCoderFor")

ContentTypes == {JSONContentType, OtherContentType, "text/plain"}
Factories == {"jsonCoderFor", "otherCoderFor"}
Methods == {"subtractMethod", "errorMethod"}
MethodNames == {NameEmpty, NameSubtract, NameError}
ServerErrorCodes ==
    {-32100, -32099, -32091, -32090, -32089, -32050, -32001, -32000, -31999, 0}

\* The record of a call: its arguments, both registries before it, and
\* how it ended.
Called(op, key, val, out) ==
    [op |-> op, key |-> key, val |-> val, fnBefore |-> fnMap, mBefore |-> m,
     panic |-> out.panic, ret |-> out.ret]

NoRequest ==
    [Method |-> "", ContentType |-> "", ContentLength |-> 0,
     Body |-> Body(FALSE, "none", <<>>)]

InitPackage ==
    /\ fnMap = InitialCoders
    /\ m = NewServer
    /\ r = NoRequest
    /\ w = NewResponseWriter
    /\ pc = "idle"
    /\ c = ""
    /\ reqs = <<>>
    /\ batch = FALSE
    /\ resps = <<>>
    /\ idx = 1
    /\ calls = <<>>
    /\ writes = <<>>
    /\ err = <<>>
    /\ last = NoCall
    /\ stored = InitialCoders
    /\ mutex = ""
    /\ workers = NoWorkers
    /\ pkg = PackageErrors
    /\ served = <<>>

\* A call of coder.Register(typ, fn).
CallRegister ==
    /\ pc = "idle"
    /\ \E typ \in ContentTypes, fn \in Factories \cup {""} :
       LET out == Register(fnMap, typ, fn)
       IN  /\ fnMap' = IF out.panic = <<>> THEN out.ret ELSE fnMap
           /\ stored' = IF out.panic = <<>> THEN (typ :> fn) @@ stored ELSE stored
           /\ last' = Called("Register", typ, fn, [out EXCEPT !.ret = <<>>])
    /\ UNCHANGED <<pkg, served, mutex, workers, m, r, w, pc, c, reqs, batch, resps, idx, calls, writes, err>>

\* A call of coder.ReplaceWith(typ, fn).
CallReplaceWith ==
    /\ pc = "idle"
    /\ \E typ \in ContentTypes, fn \in Factories \cup {""} :
       LET out == ReplaceWith(fnMap, typ, fn)
       IN  /\ fnMap' = IF out.panic = <<>> THEN out.ret ELSE fnMap
           /\ stored' = IF out.panic = <<>> THEN (typ :> fn) @@ stored ELSE stored
           /\ last' = Called("ReplaceWith", typ, fn, [out EXCEPT !.ret = <<>>])
    /\ UNCHANGED <<pkg, served, mutex, workers, m, r, w, pc, c, reqs, batch, resps, idx, calls, writes, err>>

\* A call of coder.New(w, r) for a request of some content type.
CallNew ==
    /\ pc = "idle"
    /\ \E ct \in ContentTypes :
       last' = Called("New", ct, "",
                      Returns(CoderNew(fnMap, [NoRequest EXCEPT !.ContentType = ct])))
    /\ UNCHANGED <<pkg, served, mutex, workers, fnMap, stored, m, r, w, pc, c, reqs, batch, resps, idx, calls,
                   writes, err>>

\* A call of s.Register(name, meth).
CallServerRegister ==
    /\ pc = "idle"
    /\ \E name \in MethodNames, meth \in Methods \cup {"nil"} :
       LET out == ServerRegister(m, name, meth)
       IN  /\ m' = IF out.panic = <<>> THEN out.ret ELSE m
           /\ last' = Called("ServerRegister", name, meth, [out EXCEPT !.ret = <<>>])
    /\ UNCHANGED <<pkg, served, mutex, workers, fnMap, stored, r, w, pc, c, reqs, batch, resps, idx, calls,
                   writes, err>>

\* A call of coder.ServerError(code).
CallServerError ==
    /\ pc = "idle"
    /\ \E code \in ServerErrorCodes :
       last' = Called("ServerError", code, "", ServerError(code))
    /\ UNCHANGED <<pkg, served, mutex, workers, fnMap, stored, m, r, w, pc, c, reqs, batch, resps, idx, calls,
                   writes, err>>

NextPackage ==
    \/ CallRegister
    \/ CallReplaceWith
    \/ CallNew
    \/ CallServerRegister
    \/ CallServerError

SpecPackage == InitPackage /\ [][NextPackage]_vars

(***************************************************************************)
(* Concurrent calls of coder.New, coder.Register and coder.ReplaceWith:    *)
(* every worker makes one call, a step is one line of the call.            *)
(*   New:         lock (78), lookup (81), unlock (79, deferred)            *)
(*   Register:    nilcheck (92), dupcheck (96), then register              *)
(*   ReplaceWith: nilcheck (106), then register                            *)
(*   register:    lock (114), write (117), unlock (115, deferred)          *)
(* A worker ends in "done" (returned), "panicked", or "fatal" when the     *)
(* runtime aborts the process on a concurrent map read and map write.      *)
(***************************************************************************)
exchangeVars == <<m, r, w, pc, c, reqs, batch, resps, idx, calls, writes, err, pkg, served>>

\* The content types and factories of the concurrent calls.
ConcurrentTypes == {JSONContentType, OtherContentType}

InitConcurrent ==
    /\ fnMap = InitialCoders
    /\ m = NewServer
    /\ r = NoRequest
    /\ w = NewResponseWriter
    /\ pc = "idle"
    /\ c = ""
    /\ reqs = <<>>
    /\ batch = FALSE
    /\ resps = <<>>
    /\ idx = 1
    /\ calls = <<>>
    /\ writes = <<>>
    /\ err = <<>>
    /\ last = NoCall
    /\ stored = InitialCoders
    /\ mutex = ""
    /\ workers = NoWorkers
    /\ pkg = PackageErrors
    /\ served = <<>>

\* The worker wk moves to the line at, the rest of its call as it is.
At(wk, at) == [workers EXCEPT ![wk].pc = at]

\* A worker enters New, Register or ReplaceWith.
CallStart ==
    /\ \E wk \in Workers, op \in {"New", "Register", "ReplaceWith"},
          typ \in ConcurrentTypes, fn \in Factories \cup {""} :
       /\ workers[wk].pc = "idle"
       /\ op = "New" => fn = ""
       /\ workers' = [workers EXCEPT ![wk] =
              [op |-> op, typ |-> typ, fn |-> fn,
               pc |-> IF op = "New" THEN "lock" ELSE "nilcheck",
               ret |-> "", panic |-> <<>>]]
    /\ UNCHANGED <<fnMap, mutex, last, stored>>
    /\ UNCHANGED exchangeVars

\* if fn == nil { panic("coder: function is nil") }
NilCheck ==
    /\ \E wk \in Workers :
       /\ workers[wk].pc = "nilcheck"
       /\ workers' =
            IF workers[wk].fn = ""
            THEN [workers EXCEPT ![wk].pc = "panicked",
                                 ![wk].panic = <<"coder: function is nil">>]
            ELSE At(wk, IF workers[wk].op = "Register" THEN "dupcheck" ELSE "lock")
    /\ UNCHANGED <<fnMap, mutex, last, stored>>
    /\ UNCHANGED exchangeVars

\* What the read fnMap.m[typ] of line 96, made without the mutex, can find:
\* the map as it is; and, while another worker stands at the write of line
\* 117, also the map as that write leaves it, or the runtime's abort.
DupCheckFinds(wk) ==
    {IF workers[wk].typ \in DOMAIN fnMap THEN "dup" ELSE "free"}
    \cup UNION {{IF workers[wk].typ \in DOMAIN fnMap \cup {workers[o].typ}
                  THEN "dup" ELSE "free",
                 "fatal"} : o \in {x \in Workers \ {wk} : workers[x].pc = "write"}}

\* if _, dup := fnMap.m[typ]; dup { panic(...) }
DupCheck ==
    /\ \E wk \in Workers :
       /\ workers[wk].pc = "dupcheck"
       /\ \E found \in DupCheckFinds(wk) :
            workers' =
              IF found = "fatal"
              THEN [x \in Workers |->
                      [workers[x] EXCEPT !.pc = "fatal",
                          !.panic = <<"fatal error: concurrent map read and map write">>]]
              ELSE IF found = "dup"
              THEN [workers EXCEPT ![wk].pc = "panicked",
                       ![wk].panic = <<"coder: Register called twice for type "
                                       \o workers[wk].typ>>]
              ELSE At(wk, "lock")
    /\ UNCHANGED <<fnMap, mutex, last, stored>>
    /\ UNCHANGED exchangeVars

\* fnMap.Lock()
MutexLock ==
    /\ \E wk \in Workers :
       /\ workers[wk].pc = "lock"
       /\ mutex = ""
       /\ mutex' = wk
       /\ workers' = At(wk, IF workers[wk].op = "New" THEN "lookup" ELSE "write")
    /\ UNCHANGED <<fnMap, last, stored>>
    /\ UNCHANGED exchangeVars

\* fn, ok := fnMap.m[r.Header.Get("Content-Type")] and the return of New
MapLookup ==
    /\ \E wk \in Workers :
       /\ workers[wk].pc = "lookup"
       /\ workers' = [workers EXCEPT ![wk].pc = "unlock",
              ![wk].ret = CoderNew(fnMap, [NoRequest EXCEPT !.ContentType = workers[wk].typ])]
    /\ UNCHANGED <<fnMap, mutex, last, stored>>
    /\ UNCHANGED exchangeVars

\* fnMap.m[typ] = fn
MapWrite ==
    /\ \E wk \in Workers :
       /\ workers[wk].pc = "write"
       /\ fnMap' = register(fnMap, workers[wk].typ, workers[wk].fn)
       /\ workers' = At(wk, "unlock")
    /\ UNCHANGED <<mutex, last, stored>>
    /\ UNCHANGED exchangeVars

\* defer fnMap.Unlock(), and the return of the call
MutexUnlock ==
    /\ \E wk \in Workers :
       /\ workers[wk].pc = "unlock"
       /\ mutex' = ""
       /\ workers' = At(wk, "done")
    /\ UNCHANGED <<fnMap, last, stored>>
    /\ UNCHANGED exchangeVars

NextConcurrent ==
    \/ CallStart
    \/ NilCheck
    \/ DupCheck
    \/ MutexLock
    \/ MapLookup
    \/ MapWrite
    \/ MutexUnlock

SpecConcurrent == InitConcurrent /\ [][NextConcurrent]_vars

(***************************************************************************)
(* Calls of jsonNumber.CastInt and jsonNumber.CastUint on number literals, *)
(* on a 64-bit and on a 32-bit host.                                       *)
(***************************************************************************)
\* The digits of the literals: around the bounds of both hosts' int and of
\* int64, and beyond.
LiteralDigits ==
    {<<"0">>, <<"2">>, <<"4", "2">>, <<"1", "2", "7">>, <<"1", "2", "8">>,
     <<"1", "2", "9">>, <<"2", "5", "5">>, <<"2", "5", "6">>, <<"3", "0", "0">>,
     <<"3", "2", "7", "6", "7">>, <<"3", "2", "7", "6", "8">>,
     <<"3", "2", "7", "6", "9">>, <<"6", "5", "5", "3", "5">>,
     <<"9", "9", "9", "9", "9">>}

\* What follows the digits: nothing, a fraction, an exponent.
LiteralSuffixes == {<<>>, <<".", "0">>, <<".", "5">>, <<"e", "1">>}

Literals ==
    {sign \o ds \o suffix :
        sign \in {<<>>, <<"-">>}, ds \in LiteralDigits, suffix \in LiteralSuffixes}

\* A call of n.CastInt() for a literal n, on a host of some int size.
CallCastInt ==
    /\ pc = "idle"
    /\ \E lit \in Literals, size \in IntSizes :
       last' = Called("CastInt", lit, size, Returns(CastInt(lit, size)))
    /\ UNCHANGED <<fnMap, stored, mutex, workers>>
    /\ UNCHANGED exchangeVars

\* A call of n.CastUint().
CallCastUint ==
    /\ pc = "idle"
    /\ \E lit \in Literals, size \in IntSizes :
       last' = Called("CastUint", lit, size, Returns(CastUint(lit, size)))
    /\ UNCHANGED <<fnMap, stored, mutex, workers>>
    /\ UNCHANGED exchangeVars

NextCast ==
    \/ CallCastInt
    \/ CallCastUint

SpecCast == InitPackage /\ [][NextCast]_vars

(***************************************************************************)
(* One process serving several exchanges one after the other: net/http     *)
(* calls ServeHTTP for each request, and the registries and the            *)
(* package-level Error values are those the exchange before left behind.   *)
(***************************************************************************)
\* The number of exchanges the process serves.
MaxExchanges == 2

\* Bodies that make the exchange derive from each package-level Error, and
\* one that is answered a result.
SharedBodies ==
    {Body(FALSE, "none", <<>>),
     Body(FALSE, "invalid", <<>>),
     Body(FALSE, "brokenarray", <<>>),
     Body(FALSE, "array", <<>>),
     Body(FALSE, "value", <<Element("object", "", NameSubtract, ParamsByPos, IdInt)>>),
     Body(FALSE, "value", <<InvalidIDElement>>),
     Body(FALSE, "value",
          <<Element("object", jsonrpcVersion, NameUnregistered, ParamsByPos, IdInt)>>),
     Body(FALSE, "value",
          <<Element("object", jsonrpcVersion, NameSubtract, ParamsByNameBad, IdInt)>>),
     Body(FALSE, "value",
          <<Element("object", jsonrpcVersion, NameSubtract, ParamsString, IdInt)>>),
     Body(FALSE, "value",
          <<Element("object", jsonrpcVersion, NameSubtract, ParamsByPos, IdInt)>>),
     Body(FALSE, "array",
          <<ScalarElement,
            Element("object", "", NameSubtract, ParamsByPos, IdInt),
            Element("object", jsonrpcVersion, NameUnregistered, ParamsByPos, IdInt)>>)}

SharedRequests ==
    {[Method |-> "POST", ContentType |-> JSONContentType,
      ContentLength |-> BodyLen(body), Body |-> body] : body \in SharedBodies}
    \cup {[Method |-> "POST", ContentType |-> JSONContentType,
            ContentLength |-> -1, Body |-> Body(FALSE, "none", <<>>)],
          [Method |-> "GET", ContentType |-> JSONContentType,
            ContentLength |-> 0, Body |-> Body(FALSE, "none", <<>>)],
          [Method |-> "POST", ContentType |-> "invalid/type",
            ContentLength |-> 0, Body |-> Body(FALSE, "none", <<>>)]}

InitShared ==
    /\ pkg = PackageErrors
    /\ served = <<>>
    /\ fnMap = RegisteredCoders
    /\ m = Registry
    /\ r \in SharedRequests
    /\ w = NewResponseWriter
    /\ pc = "New"
    /\ c = ""
    /\ reqs = <<>>
    /\ batch = FALSE
    /\ resps = <<>>
    /\ idx = 1
    /\ calls = <<>>
    /\ writes = <<>>
    /\ err = <<>>
    /\ last = NoCall
    /\ stored = RegisteredCoders
    /\ mutex = ""
    /\ workers = NoWorkers

\* What is kept of an exchange that is over.
Served(req, wr, body) == [r |-> req, writes |-> wr, body |-> body]

\* ServeHTTP has returned or unwound, and net/http calls it for the next
\* request with a new ResponseWriter: the locals of the call are new, the
\* package-level variables and the Server are the same.
NextExchange ==
    /\ pc \in {"return", "done", "panic"}
    /\ Len(served) + 1 < MaxExchanges
    /\ served' = Append(served, Served(r, writes, w.body))
    /\ r' \in SharedRequests
    /\ w' = NewResponseWriter
    /\ pc' = "New"
    /\ c' = ""
    /\ reqs' = <<>>
    /\ batch' = FALSE
    /\ resps' = <<>>
    /\ idx' = 1
    /\ calls' = <<>>
    /\ writes' = <<>>
    /\ err' = <<>>
    /\ UNCHANGED <<pkg, fnMap, m, last, stored, mutex, workers>>

NextShared ==
    \/ New
    \/ CheckMethod
    \/ CheckContentLength
    \/ Decode
    \/ Dispatch
    \/ WriteOut
    \/ Exception
    \/ NextExchange

SpecShared == InitShared /\ [][NextShared]_vars

(***************************************************************************)
(* Properties                                                              *)
(***************************************************************************)
\* ReadRequests returned without a top-level Error.
Decoded == pc \in {"Dispatch", "Write", "Exception", "done"}

\* The loop over reqs has ended.
Dispatched == pc \in {"Write", "Exception", "done"}

\* ServeHTTP has returned.
Finished == pc \in {"return", "done"}

\* No write of the exchange failed.
NoFault == \A k \in 1..Len(writes) : writes[k].ok

WireNull == <<"n", "u", "l", "l">>

\* The members of an error response on the wire.
WireError(code, message, data, id) ==
    [jsonrpc |-> "2.0", result |-> <<>>,
     error |-> <<[C |-> code, M |-> message, D |-> data]>>, id |-> id]

\* The body is one JSON object on the wire.
SingleMessage == r.Body.form = "value" /\ Decoded /\ ~batch

\* The body is a JSON array on the wire, read as a batch.
BatchMessage == r.Body.form = "array" /\ ~r.Body.lead /\ r.Body.elems # <<>> /\ Decoded

\* An array element that does not decode into a request object.
StructurallyBad(el) == el.kind # "object"

\* An array element that decodes and fails the version or the id check.
SemanticallyBad(el) ==
    /\ el.kind = "object"
    /\ \/ el.V # "2.0"
       \/ el.I # <<>> /\ el.I[1] \in {"[", "{", "t", "f"}

Parses(el) == ~StructurallyBad(el) /\ ~SemanticallyBad(el)

\* C1: a single POST request that decodes and has no id field (a
\* notification) gets zero bytes written to the response body, whatever the
\* outcome of its dispatch.
C1_NotificationWritesNothing ==
    (SingleMessage /\ r.Body.elems[1].I = <<>>) => w.body = <<>>

\* C2: a decoded request with a present id gets exactly one response, and
\* the id written on the wire is byte-identical to the id bytes received.
C2_IdEchoedVerbatim ==
    /\ (SingleMessage /\ r.Body.elems[1].I # <<>> /\ pc = "done" /\ NoFault)
        => /\ Len(resps) = 1
           /\ Len(w.body) = 1
           /\ w.body[1].form = "object"
           /\ w.body[1].items[1].id = r.Body.elems[1].I
    /\ (BatchMessage /\ pc = "done" /\ NoFault
            /\ \A k \in 1..Len(r.Body.elems) :
                  Parses(r.Body.elems[k]) /\ r.Body.elems[k].I # <<>>)
        => /\ Len(resps) = Len(r.Body.elems)
           /\ Len(w.body) = 1
           /\ Len(w.body[1].items) = Len(r.Body.elems)
           /\ \A k \in 1..Len(r.Body.elems) :
                  w.body[1].items[k].id = r.Body.elems[k].I

\* An element that parses and is dispatched to subtract with [42, 23].
DispatchesSuccessfully(el) ==
    Parses(el) /\ el.M = NameSubtract /\ el.P = ParamsByPos

\* The i-th response on the wire answers the i-th element.
AnsweredInOrder ==
    /\ Len(w.body) = 1
    /\ w.body[1].form = "array"
    /\ Len(w.body[1].items) = Len(r.Body.elems)
    /\ \A k \in 1..Len(r.Body.elems) :
          /\ w.body[1].items[k].id = Compact(r.Body.elems[k].I)
          /\ w.body[1].items[k].jsonrpc = "2.0"
          /\ DispatchesSuccessfully(r.Body.elems[k])
                => /\ w.body[1].items[k].result = <<<<19>>>>
                   /\ w.body[1].items[k].error = <<>>

\* C3 as stated: a batch of N elements that all parse and dispatch
\* successfully yields an array of exactly N responses, the i-th answering
\* the i-th element.
C3_BatchOfNYieldsN ==
    (BatchMessage /\ pc = "done" /\ NoFault
        /\ \A k \in 1..Len(r.Body.elems) : DispatchesSuccessfully(r.Body.elems[k]))
    => AnsweredInOrder

\* C3 amended: a batch of N elements that all parse and carry an id yields an
\* array of exactly N responses, the i-th carrying the i-th element's id and,
\* when the element dispatches successfully, its result.
C3_BatchOfNRequestsYieldsN ==
    (BatchMessage /\ pc = "done" /\ NoFault
        /\ \A k \in 1..Len(r.Body.elems) :
              Parses(r.Body.elems[k]) /\ r.Body.elems[k].I # <<>>)
    => AnsweredInOrder

C3_Witness ==
    /\ pc = "done"
    /\ NoFault
    /\ r.Body = Body(FALSE, "array",
                     <<Element("object", "2.0", NameSubtract, ParamsByPos, IdInt2),
                       Element("object", "2.0", NameSubtract, ParamsByPos, IdInt),
                       Element("object", "2.0", NameEmpty, ParamsByPos, IdInt2)>>)
    /\ Len(w.body) = 1
    /\ Len(w.body[1].items) = 3

IsNotificationResponse(resp) == resp.ID = <<<<>>>>

IsAnswered(el) == ~SemanticallyBad(el) /\ (StructurallyBad(el) \/ el.I # <<>>)

IsKept(el) == ~SemanticallyBad(el)

InvalidRequestResponse ==
    [Result |-> <<>>,
     Error |-> <<[Code |-> -32600, Message |-> "Invalid Request", Data |-> <<>>]>>,
     ID |-> <<>>]

\* C4: in a batch, an element that fails structural decode yields an
\* InvalidRequest response (code -32600, null id, no Data) at its position
\* among the responses, an element that fails the version or id check yields
\* no entry, and the other elements are still dispatched and answered.
C4_BatchMalformedElements ==
    (BatchMessage /\ Dispatched)
    => LET kept == SelectSeq(r.Body.elems, IsKept)
           answered == SelectSeq(r.Body.elems, IsAnswered)
           given == SelectSeq(resps, LAMBDA x : ~IsNotificationResponse(x))
       IN  /\ Len(reqs) = Len(kept)
           /\ \A k \in 1..Len(kept) : (reqs[k] = <<>>) <=> StructurallyBad(kept[k])
           /\ \A k \in 1..Len(kept) :
                 Parses(kept[k]) /\ kept[k].M = NameSubtract
                     => \E n \in 1..Len(calls) : calls[n] = Call("Invoke", NameSubtract)
           /\ Len(given) = Len(answered)
           /\ \A k \in 1..Len(answered) :
                 IF StructurallyBad(answered[k])
                 THEN given[k] = InvalidRequestResponse
                 ELSE given[k].ID = <<answered[k].I>>
           /\ (pc = "done" /\ NoFault)
                 => /\ Len(w.body) = 1
                    /\ w.body[1].form = "array"
                    /\ Len(w.body[1].items) = Len(resps)
                    /\ \A k \in 1..Len(resps) :
                          resps[k] = InvalidRequestResponse
                              => w.body[1].items[k]
                                    = WireError(-32600, "Invalid Request", <<>>, WireNull)

C4_Witness ==
    /\ pc = "done"
    /\ NoFault
    /\ r.Method = "POST"
    /\ r.Body = Body(FALSE, "array",
                     <<Element("object", "", NameSubtract, ParamsByPos, IdInt),
                       ScalarElement,
                       Element("object", "2.0", NameSubtract, ParamsByPos, IdInt2)>>)
    /\ Len(w.body) = 1
    /\ Len(w.body[1].items) = 2
    /\ w.body[1].items[1] = WireError(-32600, "Invalid Request", <<>>, WireNull)

\* C5: a batch exchange in which every decoded element is a notification that
\* dispatches without error has an empty response sequence and writes nothing
\* at all to the response body (no empty array either).
C5_NotificationBatchWritesNothing ==
    (BatchMessage /\ pc = "done" /\ reqs # <<>>
        /\ \A k \in 1..Len(reqs) :
              /\ reqs[k] # <<>>
              /\ reqs[k][1].ID = <<<<>>>>
              /\ reqs[k][1].Method = NameSubtract)
    => resps = <<>> /\ w.body = <<>>

\* C6: a batch exchange that produces at least one response writes the
\* responses through WriteResponses as an array, also when there is exactly
\* one, and the array is as long as the responses produced.
C6_BatchWrittenAsArray ==
    (batch /\ Len(resps) >= 1 /\ pc \in {"Exception", "done"})
    => /\ writes[1].op = "WriteResponses"
       /\ writes[1].n = Len(resps)
       /\ \A k \in 1..Len(writes) : writes[k].op # "WriteResponse"
       /\ writes[1].ok
            => /\ pc = "done"
               /\ Len(w.body) = 1
               /\ w.body[1].form = "array"
               /\ Len(w.body[1].items) = Len(resps)
               /\ \A k \in 1..Len(resps) :
                     w.body[1].items[k].error # <<>>
                         => w.body[1].items[k].error[1].C # -32091

C6_Witness ==
    /\ pc = "done"
    /\ batch
    /\ Len(resps) = 1
    /\ Len(r.Body.elems) = 1
    /\ writes = <<WriteCall("WriteResponses", 1, TRUE)>>
    /\ w.body[1].form = "array"

\* C7: when the request's Content-Type has no registered coder, ServeHTTP
\* reports 415 with the text media type "<type>" is not supported and does
\* nothing else: no protocol response, no decoding, no method call, whatever
\* the verb and the body are.
C7_UnsupportedMediaType ==
    (r.ContentType = "invalid/type" /\ pc # "New")
    => /\ pc = "return"
       /\ c = ""
       /\ w.status = 415
       /\ w.body = <<Doc("text", <<>>, "media type \"invalid/type\" is not supported\n")>>
       /\ writes = <<WriteCall("http.Error", 0, TRUE)>>
       /\ reqs = <<>>
       /\ resps = <<>>
       /\ calls = <<>>

C7_Witness ==
    /\ pc = "return"
    /\ r.ContentType = "invalid/type"
    /\ r.Method = "GET"
    /\ r.Body.form = "value"
    /\ w.status = 415

\* C8: once a coder is resolved the outgoing Content-Type header is
\* application/json; charset=utf-8, set before any status or body byte is
\* written, on every path.
C8_ContentTypeDeclared ==
    c # "" => w.header.ContentType = "application/json; charset=utf-8"

\* C9: with a resolved coder and a verb other than POST the status is 405,
\* the Allow header names POST, the body is exactly one ParseError response
\* (code -32700, Data invalid HTTP method, null id), nothing is decoded and
\* no method is invoked.
C9_MethodNotAllowed ==
    (c # "" /\ r.Method # "POST" /\ Finished /\ NoFault)
    => /\ w.status = 405
       /\ w.header.Allow = "POST"
       /\ w.body = <<Doc("object",
                         <<WireError(-32700, "Parse error", <<"invalid HTTP method">>,
                                     WireNull)>>, "")>>
       /\ reqs = <<>>
       /\ calls = <<>>

\* C10: a POST exchange with a resolved coder and a body of zero bytes, also
\* when the transport does not know the length in advance, is answered
\* exactly one ParseError (code -32700) with Data empty POST body and null
\* id, and no method is invoked.
C10_EmptyBody ==
    (c # "" /\ r.Method = "POST" /\ r.Body.form = "none" /\ Finished /\ NoFault)
    => /\ w.body = <<Doc("object",
                         <<WireError(-32700, "Parse error", <<"empty POST body">>,
                                     WireNull)>>, "")>>
       /\ calls = <<>>

\* The body is the two bytes of an empty JSON array, sent to the JSON coder
\* with POST.
EmptyArrayBody ==
    /\ c = "jsonCoderFor"
    /\ r.Method = "POST"
    /\ r.Body = Body(FALSE, "array", <<>>)

\* C11: a body consisting of an empty JSON array is answered exactly one
\* InvalidRequest response (code -32600, null id, no Data) written as a
\* single object, not as an array, and no method is invoked.
C11_EmptyArray ==
    (EmptyArrayBody /\ pc \notin {"CheckMethod", "CheckContentLength", "ReadRequests"})
    => /\ pc = "return"
       /\ batch
       /\ reqs = <<>>
       /\ resps = <<>>
       /\ calls = <<>>
       /\ Len(writes) = 1
       /\ writes[1].op = "WriteResponse"
       /\ writes[1].ok
            => w.body = <<Doc("object",
                              <<WireError(-32600, "Invalid Request", <<>>, WireNull)>>,
                              "")>>

C11_Witness ==
    /\ EmptyArrayBody
    /\ pc = "return"
    /\ Len(w.body) = 1
    /\ w.body[1].form = "object"
    /\ w.body[1].items[1].error[1].C = -32600

\* A single JSON message that decoded into one request, after its dispatch.
SingleDispatched == SingleMessage /\ Dispatched /\ Len(reqs) = 1

\* The name resolves to no method: empty, reserved, unregistered or nil.
ResolvesToNoMethod(name) ==
    \/ name = <<>>
    \/ Len(name) >= 4 /\ SubSeq(name, 1, 4) = <<"r", "p", "c", ".">>
    \/ name \notin DOMAIN m
    \/ m[name] = "nil"

ErrorResponse(code, message, data, id) ==
    [Result |-> <<>>,
     Error |-> <<[Code |-> code, Message |-> message, Data |-> data]>>,
     ID |-> <<id>>]

Invoked(name) == \E n \in 1..Len(calls) : calls[n] = Call("Invoke", name)

\* C12: invokeRequest returns MethodNotFound (code -32601) carrying the
\* request's id, with no call of ParseNamedParams or Invoke, exactly when the
\* method name is empty, starts with rpc. (registered or not), is not
\* registered, or is registered with a nil method.
C12_MethodNotFound ==
    SingleDispatched
    => LET el == r.Body.elems[1]
       IN  (/\ resps = <<ErrorResponse(-32601, "Method not found", <<>>, el.I)>>
            /\ calls = <<>>)
           <=> ResolvesToNoMethod(el.M)

C12_Witness ==
    /\ SingleDispatched
    /\ r.Body.elems[1].M = NameRpcSubtract
    /\ NameRpcSubtract \in DOMAIN m
    /\ r.Body.elems[1].P = ParamsByPos
    /\ r.Body.elems[1].I = IdInt
    /\ resps = <<ErrorResponse(-32601, "Method not found", <<>>, IdInt)>>
    /\ calls = <<>>

\* The value of the key k among the pairs of a name-to-value map.
NamedValue(named, k) == (CHOOSE kv \in named : kv[1] = k)[2]

\* The name-to-value map holds the keys ks.
HoldsKeys(named, ks) == \A k \in ks : \E kv \in named : kv[1] = k

\* The positional list the method's conversion gives for a map it accepts:
\* minuend then subtrahend for subtract, the empty list for the error method.
PositionalFor(method, named) ==
    IF method = "subtractMethod"
    THEN <<NamedValue(named, "minuend"), NamedValue(named, "subtrahend")>>
    ELSE <<>>

\* The method's conversion accepts the map.
Converts(method, named) ==
    method = "subtractMethod" => HoldsKeys(named, {"minuend", "subtrahend"})

\* The literal as an integer: 42 and 23 are the literals of the requests.
LiteralValue(lit) == IF lit = <<"4", "2">> THEN 42 ELSE 23

\* C13: for a registered method, a request whose params is a map that the
\* method converts to the positional list P gets the response of the request
\* with the same id and the positional params P; positional params reach
\* Invoke unchanged and in their order.
C13_NamedAsPositional ==
    (SingleDispatched /\ ~ResolvesToNoMethod(r.Body.elems[1].M))
    => LET el == r.Body.elems[1]
           method == m[el.M]
       IN  /\ (el.P.t = "object" /\ Converts(method, el.P.named))
                => /\ resps = invokeRequest(m, [reqs[1][1] EXCEPT !.Params =
                                  Params("array", PositionalFor(method, el.P.named), {})]).resp
                   /\ calls = <<Call("ParseNamedParams", el.M), Call("Invoke", el.M)>>
           /\ (el.P.t \in {"array", "object"} /\ method = "subtractMethod"
                   /\ Converts(method, el.P.named) /\ el.I # <<>>)
                => LET P == IF el.P.t = "array" THEN el.P.pos
                            ELSE PositionalFor(method, el.P.named)
                   IN  resps = <<[Result |-> <<LiteralValue(P[1]) - LiteralValue(P[2])>>,
                                  Error |-> <<>>, ID |-> <<el.I>>]>>
           /\ el.P.t = "array" => calls = <<Call("Invoke", el.M)>>

C13_Witness ==
    /\ SingleDispatched
    /\ r.Body.elems[1] = Element("object", "2.0", NameSubtract, ParamsByName, IdInt)
    /\ resps = <<[Result |-> <<19>>, Error |-> <<>>, ID |-> <<IdInt>>]>>
    /\ calls = <<Call("ParseNamedParams", NameSubtract), Call("Invoke", NameSubtract)>>

\* C14: for a request to a registered method, a map that ParseNamedParams
\* rejects is answered InvalidParams (code -32602) with the failure as Data,
\* params that are neither a list nor a map (absent, null, string, number,
\* boolean) are answered InvalidParams with the fixed Data; in both cases
\* Invoke is not called and the response carries the request's id.
C14_InvalidParams ==
    (SingleDispatched /\ ~ResolvesToNoMethod(r.Body.elems[1].M))
    => LET el == r.Body.elems[1]
           method == m[el.M]
       IN  /\ (el.P.t = "object" /\ ~Converts(method, el.P.named))
                => /\ resps = <<ErrorResponse(-32602, "Invalid params",
                                    <<"parameter minuend not provided">>, el.I)>>
                   /\ calls = <<Call("ParseNamedParams", el.M)>>
           /\ el.P.t \notin {"array", "object"}
                => /\ resps = <<ErrorResponse(-32602, "Invalid params",
                        <<"params should be by-position (array) or by-name (object)">>,
                        el.I)>>
                   /\ calls = <<>>

C14_Witness ==
    /\ SingleDispatched
    /\ pc = "done"
    /\ r.Body.elems[1] = Element("object", "2.0", NameSubtract, ParamsByNameBad, IdInt)
    /\ resps[1].Error[1].Code = -32602
    /\ resps[1].Error[1].Data = <<"parameter minuend not provided">>
    /\ ~Invoked(NameSubtract)

\* The response objects on the wire, in the order written: the members of
\* every object and of every array element (the text of http.Error is none).
RECURSIVE WireItems(_)
WireItems(docs) ==
    IF docs = <<>> THEN <<>>
    ELSE (IF Head(docs).form = "text" THEN <<>> ELSE Head(docs).items)
         \o WireItems(Tail(docs))

\* The id on the wire of a Response: null when it has none.
WireID(resp) ==
    IF resp.ID = <<>> \/ resp.ID = <<<<>>>> THEN WireNull ELSE Compact(resp.ID[1])

\* C15: an invoked request with an id is answered an error Response with the
\* Error that Invoke returned when it returned one, and a success Response
\* with the returned value otherwise; every response object on the wire has
\* jsonrpc 2.0, an id (null when the Response has none) and exactly one of
\* result and error.
C15_ResultOrError ==
    /\ (SingleDispatched /\ r.Body.elems[1].I # <<>> /\ Invoked(r.Body.elems[1].M))
        => LET el == r.Body.elems[1]
           IN  IF m[el.M] = "errorMethod"
               THEN resps = <<ErrorResponse(1, "Test error", <<>>, el.I)>>
               ELSE /\ Len(resps) = 1
                    /\ resps[1].Error = <<>>
                    /\ resps[1].Result \in {<<19>>, <<-19>>}
                    /\ resps[1].ID = <<el.I>>
    /\ \A k \in 1..Len(WireItems(w.body)) :
          LET item == WireItems(w.body)[k]
          IN  /\ item.jsonrpc = "2.0"
              /\ item.id # <<>>
              /\ (item.result = <<>>) # (item.error = <<>>)
    /\ (pc = "return" /\ c # "" /\ NoFault)
        => /\ Len(WireItems(w.body)) = 1
           /\ WireItems(w.body)[1].id = WireNull
    /\ (pc = "done" /\ NoFault /\ (batch \/ Len(resps) = 1))
        => /\ Len(WireItems(w.body)) = Len(resps)
           /\ \A k \in 1..Len(resps) :
                 /\ WireItems(w.body)[k].id = WireID(resps[k])
                 /\ (WireItems(w.body)[k].error = <<>>) <=> (resps[k].Error = <<>>)
                 /\ resps[k].Error = <<>>
                       => WireItems(w.body)[k].result = <<resps[k].Result>>

C15_Witness ==
    /\ SingleDispatched
    /\ pc = "done"
    /\ NoFault
    /\ r.Body.elems[1] = Element("object", "2.0", NameError, ParamsByPos, IdInt)
    /\ Invoked(NameError)
    /\ WireItems(w.body) = <<WireError(1, "Test error", <<>>, IdInt)>>

\* ServeHTTP is past the write of lines 80-94.
PastWrite == pc \in {"Exception", "done", "panic"}

\* C16: a non-batch exchange for which the coder returns several requests
\* and several responses result writes exactly one response, a Server error
\* of code -32091 with Data multiple responses and null id, in place of the
\* results, and completes normally.
C16_MultipleResponses ==
    (~batch /\ Len(reqs) > 1 /\ Len(resps) > 1 /\ PastWrite)
    => /\ pc # "panic"
       /\ Len(writes) >= 1
       /\ writes[1].op = "WriteResponse"
       /\ (pc = "done" /\ NoFault)
            => w.body = <<Doc("object",
                              <<WireError(-32091, "Server error",
                                          <<"multiple responses">>, WireNull)>>, "")>>

\* C18: a failure of WriteResponse or WriteResponses, on whatever path, is
\* followed by WriteException, and a failure of WriteException by the 500
\* report of http.Error; no write failure is ignored.
C18_WriteFailureReported ==
    Finished
    => \A k \in 1..Len(writes) :
          /\ (writes[k].op \in {"WriteResponse", "WriteResponses"} /\ ~writes[k].ok)
                => /\ k < Len(writes)
                   /\ writes[k + 1].op = "WriteException"
          /\ (writes[k].op = "WriteException" /\ ~writes[k].ok)
                => /\ k < Len(writes)
                   /\ writes[k + 1].op = "http.Error"
                   /\ w.status = 500

\* C17: ServerError(code) returns Error{code, Server error} for every code
\* from -32089 to -32000 and panics for every code from -32099 to -32090 and
\* for every code outside -32099..-32000.
C17_ServerErrorRange ==
    last.op = "ServerError"
    => IF last.key \in -32089..-32000
       THEN /\ last.panic = <<>>
            /\ last.ret = [Code |-> last.key, Message |-> "Server error", Data |-> <<>>]
       ELSE last.panic # <<>>

\* The map reg with the key k set to v and nothing else changed.
IsStoreInto(after, before, k, v) ==
    /\ DOMAIN after = DOMAIN before \cup {k}
    /\ after[k] = v
    /\ \A x \in DOMAIN before : x # k => after[x] = before[x]

\* C19: Register panics and leaves the registry as it was when the content
\* type is registered already or the factory is nil, and stores otherwise;
\* ReplaceWith panics and leaves the registry as it was when the factory is
\* nil, and overwrites otherwise; New returns the coder of the factory stored
\* last for the request's content type, and nil exactly when none ever was.
C19_RegistryOperations ==
    /\ last.op = "Register"
        => IF last.val = "" \/ last.key \in DOMAIN last.fnBefore
           THEN last.panic # <<>> /\ fnMap = last.fnBefore
           ELSE last.panic = <<>> /\ IsStoreInto(fnMap, last.fnBefore, last.key, last.val)
    /\ last.op = "ReplaceWith"
        => IF last.val = ""
           THEN last.panic # <<>> /\ fnMap = last.fnBefore
           ELSE last.panic = <<>> /\ IsStoreInto(fnMap, last.fnBefore, last.key, last.val)
    /\ last.op = "New"
        => /\ last.panic = <<>>
           /\ fnMap = last.fnBefore
           /\ last.ret = IF last.key \in DOMAIN stored THEN stored[last.key] ELSE ""
           /\ (last.ret = "") <=> (last.key \notin DOMAIN stored)
    /\ \A ct \in ContentTypes :
          CoderNew(fnMap, [NoRequest EXCEPT !.ContentType = ct])
              = IF ct \in DOMAIN stored THEN stored[ct] ELSE ""

C19_Witness ==
    /\ last.op = "Register"
    /\ last.key = JSONContentType
    /\ last.val = "jsonCoderFor"
    /\ last.panic # <<>>
    /\ fnMap[JSONContentType] = "otherCoderFor"
    /\ "text/plain" \in DOMAIN fnMap
    /\ OtherContentType \notin DOMAIN fnMap

\* C20: Server.Register panics and leaves the method registry as it was when
\* the name is empty, the name is registered already, or the method is nil.
C20_ServerRegisterMisuse ==
    (/\ last.op = "ServerRegister"
     /\ \/ last.key = <<>>
        \/ last.key \in DOMAIN last.mBefore
        \/ last.val = "nil")
    => /\ last.panic # <<>>
       /\ m = last.mBefore

\* The worker stands at a line that reads or writes fnMap.m.
ReadsMap(wk) == workers[wk].pc \in {"dupcheck", "lookup"}
WritesMap(wk) == workers[wk].pc = "write"

\* C21: every access to fnMap.m (the lookup of New, the duplicate check of
\* Register, the insertion of Register and ReplaceWith) is made with the
\* mutex held, so no worker reads the map while another writes it.
C21_MapAccessUnderMutex ==
    /\ \A wk \in Workers : (ReadsMap(wk) \/ WritesMap(wk)) => mutex = wk
    /\ \A wk \in Workers, o \in Workers :
          ~(wk # o /\ ReadsMap(wk) /\ WritesMap(o))

\* Both workers called Register with one content type that was not
\* registered, each with a factory, and both calls are over.
BothRegistered ==
    /\ \A wk \in Workers :
          /\ workers[wk].op = "Register"
          /\ workers[wk].typ = OtherContentType
          /\ workers[wk].fn # ""
          /\ workers[wk].pc \in {"done", "panicked", "fatal"}

\* C22: of two concurrent calls of Register with the same content type and
\* non-nil factories exactly one returns and the other panics with the
\* duplicate registration, under every interleaving, and the registry holds
\* the factory of the call that returned.
C22_OneRegisterWins ==
    BothRegistered
    => \E wk \in Workers, o \in Workers :
          /\ wk # o
          /\ workers[wk].pc = "done"
          /\ workers[o].pc = "panicked"
          /\ workers[o].panic
                = <<"coder: Register called twice for type application/x-other">>
          /\ fnMap[OtherContentType] = workers[wk].fn

\* The literal is an optional minus sign and digits, nothing else.
IsPlainInteger(lit) ==
    LET ds == IF lit[1] = "-" THEN Tail(lit) ELSE lit
    IN  ds # <<>> /\ \A k \in 1..Len(ds) : ds[k] \in {"0", "1", "2", "3", "4", "5",
                                                         "6", "7", "8", "9"}

\* The literal has a fractional part.
HasFraction(lit) == \E k \in 1..Len(lit) : lit[k] = "."

\* The literal is below zero.
IsNegative(lit) ==
    /\ lit[1] = "-"
    /\ \E k \in 2..Len(lit) : lit[k] \in {"1", "2", "3", "4", "5", "6", "7", "8", "9"}

\* The number a plain integer literal denotes.
RECURSIVE Denotes(_)
Denotes(lit) ==
    IF lit = <<>> THEN 0
    ELSE IF lit[1] = "-" THEN 0 - Denotes(Tail(lit))
    ELSE 10 * Denotes(SubSeq(lit, 1, Len(lit) - 1))
         + (CHOOSE d \in 0..9 : <<"0", "1", "2", "3", "4", "5", "6", "7", "8", "9">>[d + 1]
                                   = lit[Len(lit)])

\* The literal's number lies in the range of an int of size bits.
FitsInt(lit, size) ==
    /\ Denotes(lit) >= 0 - Pow2(size - 1)
    /\ Denotes(lit) <= Pow2(size - 1) - 1

\* C23: CastInt returns ok exactly when the literal has no fractional part
\* and fits the host's int, and then returns the literal's number, never a
\* wrapped one; CastUint returns ok exactly when CastInt does and the literal
\* is not negative, and (0, not ok) for every negative literal.
C23_CastIntExact ==
    /\ (last.op = "CastInt" /\ (IsPlainInteger(last.key) \/ HasFraction(last.key)))
        => /\ last.ret.ok <=> (IsPlainInteger(last.key) /\ FitsInt(last.key, last.val))
           /\ last.ret.ok => last.ret.v = Denotes(last.key)
    /\ last.op = "CastUint"
        => /\ last.ret.ok <=> (CastInt(last.key, last.val).ok /\ ~IsNegative(last.key))
           /\ IsNegative(last.key) => last.ret = [v |-> 0, ok |-> FALSE]

\* A POST to the JSON coder with a body the transport does not report as
\* empty, after ReadRequests has been called.
AfterRead ==
    /\ c = "jsonCoderFor"
    /\ r.Method = "POST"
    /\ r.ContentLength # 0
    /\ pc \notin {"CheckMethod", "CheckContentLength", "ReadRequests"}

\* C24: ReadRequests takes a body for a batch exactly when its first byte
\* that is not whitespace is '[', leading spaces, tabs or newlines included.
C24_BatchByFirstNonWhitespace ==
    (AfterRead /\ r.Body.form # "none")
    => (batch <=> r.Body.form \in {"array", "brokenarray"})

\* One error response on the wire, written as an object.
OneErrorObject(code, message, data) ==
    w.body = <<Doc("object", <<WireError(code, message, data, WireNull)>>, "")>>

\* ServeHTTP returned at line 61, after ReadRequests gave an Error.
TopLevelError == AfterRead /\ pc = "return"

\* C25: when ReadRequests returns a top-level Error (a single message that
\* does not decode, has an invalid version or an invalid id type, an outer
\* array that does not decode, an empty batch) the exchange writes exactly
\* one response, as an object even when the body began with '[', carrying
\* that Error and a null id, also when the message had a valid id, and no
\* method is invoked.
C25_TopLevelError ==
    /\ TopLevelError
        => /\ calls = <<>>
           /\ resps = <<>>
           /\ Len(writes) = 1
           /\ writes[1].op = "WriteResponse"
           /\ writes[1].ok
                => /\ Len(w.body) = 1
                   /\ w.body[1].form = "object"
                   /\ Len(w.body[1].items) = 1
                   /\ w.body[1].items[1].id = WireNull
                   /\ w.body[1].items[1].error # <<>>
                   /\ w.body[1].items[1].result = <<>>
    /\ (AfterRead /\ ~r.Body.lead)
        => LET b == r.Body
               written == pc = "return" /\ (NoFault => Len(w.body) = 1)
           IN  /\ b.form = "invalid"
                    => /\ written
                       /\ NoFault => OneErrorObject(-32600, "Invalid Request",
                             <<"invalid character 'i' looking for beginning of value">>)
               /\ (b.form = "value" /\ b.elems[1].kind = "scalar")
                    => /\ written
                       /\ NoFault => OneErrorObject(-32600, "Invalid Request",
                             <<"json: cannot unmarshal number into Go value of type generpc.jsonRequest">>)
               /\ (b.form = "value" /\ b.elems[1].kind = "object" /\ b.elems[1].V # "2.0")
                    => /\ written
                       /\ NoFault => OneErrorObject(-32600, "Invalid Request",
                                                    <<"invalid version">>)
               /\ (b.form = "value" /\ b.elems[1].kind = "object" /\ b.elems[1].V = "2.0"
                      /\ b.elems[1].I = <<"[", "]">>)
                    => /\ written
                       /\ NoFault => OneErrorObject(-32600, "Invalid Request",
                                                    <<"invalid id type">>)
               /\ b.form = "brokenarray"
                    => /\ written
                       /\ batch
                       /\ NoFault => OneErrorObject(-32700, "Parse error",
                             <<"invalid character ']' after object key">>)
               /\ (b.form = "array" /\ b.elems = <<>>)
                    => /\ written
                       /\ batch
                       /\ NoFault => OneErrorObject(-32600, "Invalid Request", <<>>)
               /\ (b.form = "value" /\ Parses(b.elems[1])) => pc # "return"
               /\ (b.form = "array" /\ b.elems # <<>>) => pc # "return"

C25_Witness ==
    /\ TopLevelError
    /\ r.Body = Body(FALSE, "value",
                     <<Element("object", "", NameSubtract, ParamsByPos, IdInt)>>)
    /\ OneErrorObject(-32600, "Invalid Request", <<"invalid version">>)
    /\ calls = <<>>

\* The 415 report of http.Error and nothing else.
Outcome415 ==
    /\ pc = "return"
    /\ w.status = 415
    /\ writes = <<WriteCall("http.Error", 0, TRUE)>>
    /\ reqs = <<>> /\ resps = <<>> /\ calls = <<>>

\* C26: the checks run in the order content negotiation, verb, body
\* present, decode, dispatch, encode, and the exchange stops at the first
\* that fails: 415 whatever the verb and the body, invalid HTTP method
\* whatever the body, empty POST body with no decode attempt, and no later
\* stage after a failed one.
C26_LifecycleOrder ==
    /\ (r.ContentType \notin DOMAIN fnMap /\ pc # "New") => Outcome415
    /\ (c # "" /\ r.Method # "POST" /\ pc # "CheckMethod")
        => /\ pc = "return"
           /\ w.status = 405
           /\ Len(writes) = 1
           /\ NoFault => OneErrorObject(-32700, "Parse error", <<"invalid HTTP method">>)
           /\ reqs = <<>> /\ resps = <<>> /\ calls = <<>>
    /\ (c # "" /\ r.Method = "POST" /\ r.Body.form = "none")
        => /\ pc # "ReadRequests"
           /\ pc \notin {"CheckMethod", "CheckContentLength"}
                => /\ pc = "return"
                   /\ Len(writes) = 1
                   /\ NoFault => OneErrorObject(-32700, "Parse error",
                                                <<"empty POST body">>)
                   /\ reqs = <<>> /\ resps = <<>> /\ calls = <<>>
    /\ pc = "return" => (resps = <<>> /\ calls = <<>> /\ Len(writes) = 1)
    /\ pc \in {"New", "CheckMethod", "CheckContentLength", "ReadRequests"}
        => (reqs = <<>> /\ resps = <<>> /\ calls = <<>> /\ writes = <<>>)

\* The decoded request binds: it names a registered method and its params
\* are a list, or a map the method converts.
Binds(req) ==
    /\ ~ResolvesToNoMethod(req.Method)
    /\ \/ req.Params.t = "array"
       \/ req.Params.t = "object" /\ Converts(m[req.Method], req.Params.named)

\* The Invoke calls owed to the decoded requests s, in their order; a nil
\* request is <<>>.
RECURSIVE InvokesOwed(_)
InvokesOwed(s) ==
    IF s = <<>> THEN <<>>
    ELSE (IF Head(s) # <<>> /\ Binds(Head(s)[1])
          THEN <<Call("Invoke", Head(s)[1].Method)>> ELSE <<>>)
         \o InvokesOwed(Tail(s))

\* The same for the elements of a body, in the order they stand in it.
RECURSIVE InvokesOwedTo(_)
InvokesOwedTo(elems) ==
    IF elems = <<>> THEN <<>>
    ELSE (IF Parses(Head(elems)) /\ Binds([Method |-> Head(elems).M,
                                           Params |-> Head(elems).P])
          THEN <<Call("Invoke", Head(elems).M)>> ELSE <<>>)
         \o InvokesOwedTo(Tail(elems))

InvokesMade == SelectSeq(calls, LAMBDA x : x.op = "Invoke")

\* C27: every decoded request that resolves to a registered method and whose
\* params bind has Invoke called exactly once, notifications included, the
\* calls are made in the order of the decoded elements, and all of them are
\* over before the first byte of the response body is written.
C27_InvokeOncePerRequest ==
    Decoded
    => /\ InvokesMade = InvokesOwed(SubSeq(reqs, 1, idx - 1))
       /\ (Dispatched /\ (BatchMessage \/ SingleMessage
                            \/ r.Body.form \in {"coded", "codedbatch"}))
            => InvokesMade = InvokesOwedTo(r.Body.elems)
       /\ pc = "Dispatch" => (writes = <<>> /\ w.body = <<>>)
       /\ writes # <<>> => idx = Len(reqs) + 1

C27_Witness ==
    /\ pc = "done"
    /\ NoFault
    /\ r.Body = Body(FALSE, "codedbatch",
                     <<Element("object", "2.0", NameError, ParamsByPos, <<>>),
                       Element("object", "2.0", NameSubtract, ParamsByPos, IdInt)>>)
    /\ calls = <<Call("Invoke", NameError), Call("Invoke", NameSubtract)>>
    /\ Len(w.body) = 1
    /\ Len(w.body[1].items) = 1

\* C28: no exchange modifies what the exchanges share: the method registry
\* and the coder registry stay as they were, the package-level Errors
\* ParseError, InvalidRequest, methodNotFound and invalidParams keep their
\* Code, Message and empty Data through every exchange, whatever was
\* derived from them or returned by address, so the response to an empty
\* batch has no Data whatever was served before, and a request served
\* again with the same writes succeeding is answered the same bytes.
C28_NoSharedStateModified ==
    /\ pkg = PackageErrors
    /\ \A name \in DOMAIN pkg : pkg[name].Data = <<>>
    /\ m = Registry
    /\ fnMap = RegisteredCoders
    /\ (EmptyArrayBody /\ pc = "return" /\ NoFault)
        => OneErrorObject(-32600, "Invalid Request", <<>>)
    /\ \A k \in 1..Len(served) :
          (pc \in {"return", "done"} /\ served[k].r = r /\ served[k].writes = writes)
          => served[k].body = w.body

C28_Witness ==
    /\ Len(served) = 1
    /\ served[1].r.Body =
         Body(FALSE, "value", <<Element("object", "", NameSubtract, ParamsByPos, IdInt)>>)
    /\ served[1].body =
         <<Doc("object",
               <<WireError(-32600, "Invalid Request", <<"invalid version">>, WireNull)>>,
               "")>>
    /\ EmptyArrayBody
    /\ pc = "return"
    /\ OneErrorObject(-32600, "Invalid Request", <<>>)

====
